---- MODULE Spec2Model ----
(***************************************************************************)
(* Model of the skill synchronisation tool (scripts/lib).                  *)
(*                                                                         *)
(* Part 1: the conflict resolver (conflict-resolver.js): parseOwnerRepo,   *)
(* ConflictContext, ConflictResolver.{addConflict, isConflict, promptUser, *)
(* handleConflict, resolveAll, applyResolution}.                           *)
(* Part 2: the output writer (extractors.js): checkNeedsUpdate, saveSkill. *)
(* Part 3: the feature extractor's normalizeTags.                          *)
(* Part 4: the retry wrapper (utils.js): fetchWithRetry.                   *)
(* Part 5: the remote content fetcher (utils.js): fetchGithubContent,      *)
(* fetchDirectoryContents.                                                 *)
(* Part 6: parseOwnerRepo on source locations of every shape.              *)
(* Part 7: the index rebuild: mergeSkillsFromDir, mergeSkills.             *)
(* Part 8: the sync controller (sync-controller.js) and the sync command:  *)
(* syncByNames, syncBatch, promptUserToSelectSkill, printStats, main, and  *)
(* resolveAllConflicts as a caller of the controller uses it.              *)
(* Part 9: the traversal below a skill's directory, call by call, with     *)
(* symbolic links that may lead back up the tree.                          *)
(*                                                                         *)
(* Strings that the code takes apart are sequences of tokens: a URL is a   *)
(* sequence such as <<"https://", "github.com", "/", "acme", "/", "docs">>,*)
(* an operator answer and a strategy name are sequences of characters.     *)
(* Strings that the code only builds and compares (names, owners) are TLA+ *)
(* strings, built with \o as the template literals build them.             *)
(***************************************************************************)
EXTENDS Integers, Sequences, FiniteSets, TLC

VARIABLES
    allLocalSkills,   \* the registry passed to resolveAll: a sequence of skills
    queue,            \* ConflictResolver.queue: the ConflictContexts, in order
    resolved,         \* ConflictResolver.resolved: {conflict, result} entries;
                      \* conflict is the position in queue of the context
    nonInteractive,   \* ConflictResolver.nonInteractive
    defaultStrategy,  \* ConflictResolver.defaultStrategy
    pc,               \* where resolveAll is: "idle", "loop", "returned"
    i,                \* resolveAll's loop index (0-based)
    runBase,          \* resolved.length when the current resolveAll was called
    answer,           \* the last line the operator typed at the prompt
    conflictCall,     \* the last isConflict call: arguments and return value
    skillsJson,       \* OutputWriter: skills-json/<name>.json, by skill name
    collection,       \* OutputWriter: collection/<name>/ (SKILL.md and files)
    now,              \* the clock that new Date() reads
    lastCheck,        \* the last checkNeedsUpdate call
    lastSave,         \* the last saveSkill call
    tagsCall,         \* normalizeTags: its input, options and current value
    retry,            \* fetchWithRetry: its arguments, locals and outcome
    fetcher,          \* fetchGithubContent: its locals, the requests it made
                      \* and what it returned
    parseCall,        \* the last parseOwnerRepo call: argument and return value
    mergeCall,        \* mergeSkillsFromDir: the directory it read and its outcome
    sync,             \* SyncController: options, stats, processedSkills and
                      \* the position of syncByNames / syncBatch
    cli,              \* the sync command: where main is, what it printed and
                      \* how the process ended
    walk              \* the traversal of a skill's directory: the repository
                      \* tree, the nested fetchDirectoryContents calls, the
                      \* symlinks resolved and the files collected

\* the variables of the output writer
storeVars == <<skillsJson, collection, now, lastCheck, lastSave>>

\* the variables of the sync controller, of the sync command and of the
\* calls of parseOwnerRepo and mergeSkillsFromDir
syncVars == <<parseCall, mergeCall, sync, cli, walk>>

\* the variables outside the conflict resolver
extVars == <<storeVars, tagsCall, retry, fetcher, syncVars>>

vars == <<allLocalSkills, queue, resolved, nonInteractive, defaultStrategy,
          pc, i, runBase, answer, conflictCall, extVars>>

(***************************************************************************)
(* Bounds of the model.                                                    *)
(***************************************************************************)
\* longest conflict queue
MaxQueue == 2
\* longest resolved-history log at which a further resolveAll may start
MaxLog == 2

(***************************************************************************)
(* JavaScript values.                                                      *)
(***************************************************************************)
\* the value of a property that an object does not have
Undefined == "<undefined>"
\* null, as the value of a string-valued property
Null == "<null>"
\* null, where a skill record is expected (isConflict's `existing`)
NoSkill == [null |-> TRUE]
\* !v for the string-or-undefined values of the model
Falsy(v) == v \in {Undefined, Null, ""}

RECURSIVE Join(_)
\* the string spelled by a sequence of tokens
Join(ts) == IF ts = <<>> THEN "" ELSE Head(ts) \o Join(Tail(ts))

(***************************************************************************)
(* parseOwnerRepo (conflict-resolver.js 12-33).                            *)
(***************************************************************************)
\* scheme tokens; a scheme token occurs only as the first token of a URL
Schemes == {"https://", "http://"}

\* tokens that contain a dot, and the part of each before its first dot
HasDot(t) == t \in {".", ".git", "github.com"}
PreDot(t) == IF t = "github.com" THEN "github" ELSE IF HasDot(t) THEN "" ELSE t

RECURSIVE SkipSlashes(_)
\* the URL parser ignores the slashes between a special scheme and the host
SkipSlashes(ts) ==
    IF ts # <<>> /\ Head(ts) = "/" THEN SkipSlashes(Tail(ts)) ELSE ts

\* new URL(sourceUrl) succeeds: an absolute URL with a scheme and a host
UrlParses(u) ==
    /\ u # <<>>
    /\ Head(u) \in Schemes
    /\ SkipSlashes(Tail(u)) # <<>>

RECURSIVE RunNoSlash(_)
\* the longest prefix without a slash: what [^\/]+ consumes, and what the
\* URL parser takes for the host
RunNoSlash(ts) ==
    IF ts = <<>> \/ Head(ts) = "/" THEN <<>>
    ELSE <<Head(ts)>> \o RunNoSlash(Tail(ts))

\* the path of the URL as it is written, as tokens: what follows the host
Pathname(u) ==
    LET rest == SkipSlashes(Tail(u))
    IN  SubSeq(rest, Len(RunNoSlash(rest)) + 1, Len(rest))

RECURSIVE SplitSlash(_)
\* pathname.split('/'): the segments, each a sequence of tokens
SplitSlash(ts) ==
    IF ts = <<>> THEN << <<>> >>
    ELSE LET rest == SplitSlash(Tail(ts))
         IN  IF Head(ts) = "/" THEN << <<>> >> \o rest
             ELSE << <<Head(ts)>> \o rest[1] >> \o Tail(rest)

RECURSIVE RemoveDotSegments(_, _)
\* the URL parser drops a "." segment and lets a ".." segment remove the
\* segment before it; url.pathname is spelled from the segments that remain
RemoveDotSegments(segs, acc) ==
    IF segs = <<>> THEN acc
    ELSE IF Head(segs) = <<".">> THEN RemoveDotSegments(Tail(segs), acc)
    ELSE IF Head(segs) = <<".", ".">>
    THEN RemoveDotSegments(Tail(segs),
             IF acc = <<>> THEN acc ELSE SubSeq(acc, 1, Len(acc) - 1))
    ELSE RemoveDotSegments(Tail(segs), Append(acc, Head(segs)))

\* url.pathname.split('/').filter(Boolean): the non-empty segments
PathParts(u) ==
    SelectSeq(RemoveDotSegments(SplitSlash(Pathname(u)), <<>>),
              LAMBDA s : s # <<>>)

\* segment.replace(/\.git$/, '')
StripGit(seg) ==
    IF seg # <<>> /\ seg[Len(seg)] = ".git" THEN SubSeq(seg, 1, Len(seg) - 1)
    ELSE seg

RECURSIVE RunNoSlashDot(_)
\* the longest prefix without slash or dot, as a string: what [^\/\.]+ consumes
RunNoSlashDot(ts) ==
    IF ts = <<>> \/ Head(ts) = "/" THEN ""
    ELSE IF HasDot(Head(ts)) THEN PreDot(Head(ts))
    ELSE Head(ts) \o RunNoSlashDot(Tail(ts))

\* the match of /github\.com\/([^\/]+)\/([^\/\.]+)/ that starts at token p
RegexAt(u, p) ==
    LET afterHost == SubSeq(u, p + 2, Len(u))
        own       == RunNoSlash(afterHost)
        afterOwn  == SubSeq(afterHost, Len(own) + 1, Len(afterHost))
        rep       == IF afterOwn = <<>> THEN "" ELSE RunNoSlashDot(Tail(afterOwn))
    IN  [ok    |-> /\ p + 1 <= Len(u)
                   /\ u[p] = "github.com"
                   /\ u[p + 1] = "/"
                   /\ own # <<>>
                   /\ afterOwn # <<>>
                   /\ rep # "",
         owner |-> Join(own),
         repo  |-> rep]

\* sourceUrl.match(...): the leftmost match, if any
RegexMatches(u) == {p \in 1..Len(u) : RegexAt(u, p).ok}

\* variant: the repository segment is returned as it stands in the path
parseOwnerRepo_KeepGit(sourceUrl) ==
    IF sourceUrl = <<>> THEN [owner |-> "", repo |-> ""]
    ELSE IF UrlParses(sourceUrl)
    THEN LET parts == PathParts(sourceUrl)
         IN  IF Len(parts) >= 2
             THEN [owner |-> Join(parts[1]), repo |-> Join(parts[2])]
             ELSE [owner |-> "", repo |-> ""]
    ELSE IF RegexMatches(sourceUrl) # {}
    THEN LET p == CHOOSE q \in RegexMatches(sourceUrl) :
                      \A r \in RegexMatches(sourceUrl) : q <= r
             m == RegexAt(sourceUrl, p)
         IN  [owner |-> m.owner, repo |-> m.repo]
    ELSE [owner |-> "", repo |-> ""]

\* variant: the fallback takes the first two segments of whatever it is given
parseOwnerRepo_AnySegments(sourceUrl) ==
    IF sourceUrl = <<>> THEN [owner |-> "", repo |-> ""]
    ELSE IF UrlParses(sourceUrl)
    THEN LET parts == PathParts(sourceUrl)
         IN  IF Len(parts) >= 2
             THEN [owner |-> Join(parts[1]), repo |-> Join(StripGit(parts[2]))]
             ELSE [owner |-> "", repo |-> ""]
    ELSE LET segs == SelectSeq(SplitSlash(sourceUrl), LAMBDA s : s # <<>>)
         IN  IF Len(segs) >= 2
             THEN [owner |-> Join(segs[1]), repo |-> Join(segs[2])]
             ELSE [owner |-> "", repo |-> ""]

parseOwnerRepo(sourceUrl) ==
    IF sourceUrl = <<>> THEN [owner |-> "", repo |-> ""]
    ELSE IF UrlParses(sourceUrl)
    THEN LET parts == PathParts(sourceUrl)
         IN  IF Len(parts) >= 2
             THEN [owner |-> Join(parts[1]), repo |-> Join(StripGit(parts[2]))]
             ELSE [owner |-> "", repo |-> ""]
    ELSE IF RegexMatches(sourceUrl) # {}
    THEN LET p == CHOOSE q \in RegexMatches(sourceUrl) :
                      \A r \in RegexMatches(sourceUrl) : q <= r
             m == RegexAt(sourceUrl, p)
         IN  [owner |-> m.owner, repo |-> m.repo]
    ELSE [owner |-> "", repo |-> ""]

(***************************************************************************)
(* Skill records.  A record of the model carries the fields the resolver   *)
(* reads (name, owner, repo, sourceUrl), one payload field (version) that  *)
(* shows whose fields a registry slot holds, and originalName, which only  *)
(* a renamed record has.                                                   *)
(***************************************************************************)
Skill(n, o, r, u, v) ==
    [name |-> n, owner |-> o, repo |-> r, sourceUrl |-> u, version |-> v,
     originalName |-> Undefined]

UrlAcme  == <<"https://", "github.com", "/", "acme", "/", "docs", ".git">>
UrlBeta  == <<"https://", "github.com", "/", "beta", "/", "kit">>
UrlBare  == <<"github.com", "/", "acme", "/", "docs">>
UrlShort == <<"https://", "github.com", "/", "acme">>

\* the local stores a run may start from; names are unique in each, since
\* the store holds one document per name
LocalStores ==
    { << Skill("docs", "acme", "docs", UrlAcme, "1.0"),
         Skill("lint", Undefined, Undefined, UrlAcme, "1.0") >>,
      << Skill("docs", Undefined, Undefined, UrlAcme, "1.0"),
         Skill("beta-docs", "gamma", "fork", UrlBare, "0.9") >> }

\* the candidates a sync may bring in
Incomings ==
    { Skill("docs", Undefined, Undefined, UrlBeta, "2.1"),
      Skill("docs", "", "kit", UrlShort, "2.2") }

(***************************************************************************)
(* Operator answers and strategy names, as sequences of characters.        *)
(***************************************************************************)
StrSkip     == <<"s", "k", "i", "p">>
StrReplace  == <<"r", "e", "p", "l", "a", "c", "e">>
StrKeepBoth == <<"k", "e", "e", "p", "-", "b", "o", "t", "h">>
StrMerge    == <<"m", "e", "r", "g", "e">>

\* the defaultStrategy option: absent (<<>>), the three of the CLI, and one
\* the CLI would not pass on
StrategyOptions == {<<>>, StrSkip, StrReplace, StrKeepBoth, StrMerge}

\* what the operator may type at the prompt
Answers ==
    { <<>>, <<"s">>, <<" ", "R">>, <<"K", " ">>, <<"s", "k">> }

IsSpace(c) == c = " "

toLowerCase(c) ==
    CASE c = "S" -> "s" [] c = "R" -> "r" [] c = "K" -> "k"
      [] c = "A" -> "a" [] c = "B" -> "b" [] c = "C" -> "c" [] OTHER -> c

RECURSIVE TrimStart(_)
TrimStart(cs) ==
    IF cs # <<>> /\ IsSpace(Head(cs)) THEN TrimStart(Tail(cs)) ELSE cs

RECURSIVE TrimEnd(_)
TrimEnd(cs) ==
    IF cs # <<>> /\ IsSpace(cs[Len(cs)])
    THEN TrimEnd(SubSeq(cs, 1, Len(cs) - 1)) ELSE cs

\* answer.trim().toLowerCase()
promptUser(typed) ==
    LET t == TrimEnd(TrimStart(typed))
    IN  [k \in 1..Len(t) |-> toLowerCase(t[k])]

\* str.charAt(0)
charAt0(cs) == IF cs = <<>> THEN <<>> ELSE <<cs[1]>>

(***************************************************************************)
(* ConflictContext and the pure parts of ConflictResolver.                 *)
(***************************************************************************)
\* record.owner || parseOwnerRepo(record.sourceUrl).owner
DerivedOwner(s) ==
    IF Falsy(s.owner) THEN parseOwnerRepo(s.sourceUrl).owner ELSE s.owner

\* new ConflictContext(existing, incoming)
ConflictContext(existing, incoming) ==
    [existing |-> existing, incoming |-> incoming, resolution |-> Null]

\* variant: the incoming name is kept as it is
getRenamedName_BareName(context) == context.incoming.name

\* variant: the owner field is used as it is, without the sourceUrl fallback
getRenamedName_NoFallback(context) ==
    context.incoming.owner \o "-" \o context.incoming.name

\* ConflictContext.getRenamedName
getRenamedName(context) == DerivedOwner(context.incoming) \o "-" \o context.incoming.name

\* variant: the owner fields are compared as they are
isConflict_RawOwner(existing, incoming) ==
    IF existing = NoSkill THEN FALSE
    ELSE existing.name = incoming.name /\ existing.owner # incoming.owner

\* ConflictResolver.isConflict
isConflict(existing, incoming) ==
    IF existing = NoSkill THEN FALSE
    ELSE LET existingOwner == DerivedOwner(existing)
             incomingOwner == DerivedOwner(incoming)
         IN  existing.name = incoming.name /\ existingOwner # incomingOwner

Result(a, t, n, w, o) ==
    [action |-> a, target |-> t, newName |-> n, warning |-> w,
     originalName |-> o]

\* allLocalSkills.findIndex(s => s.name === n), 1-based; 0 when there is none
findIndex(skills, n) ==
    IF \E k \in 1..Len(skills) : skills[k].name = n
    THEN CHOOSE k \in 1..Len(skills) :
             /\ skills[k].name = n
             /\ \A j \in 1..(k - 1) : skills[j].name # n
    ELSE 0

\* the warning of the cascading branch
Warning(newName, exists, incoming) ==
    "replace " \o newName \o ": "
        \o DerivedOwner(exists) \o "/"
        \o (IF Falsy(exists.repo) THEN exists.name ELSE exists.repo)
        \o " <- " \o DerivedOwner(incoming) \o "/"
        \o (IF Falsy(incoming.repo) THEN incoming.name ELSE incoming.repo)

SkipOutcome ==
    [resolution |-> "skip",
     result |-> Result("skip", Undefined, Undefined, Undefined, Undefined)]

ReplaceOutcome(context) ==
    [resolution |-> "replace",
     result |-> Result("replace", context.existing.name, Undefined,
                       Undefined, Undefined)]

\* the keep-both case of handleConflict: the renamed identifier, the check
\* for an occupant of that name, and the result of either branch
KeepBothOutcome(context, skills) ==
    LET newName == getRenamedName(context)
        at      == findIndex(skills, newName)
    IN  IF at # 0
        THEN [resolution |-> "keep-both",
              result |-> Result("replace", newName, Undefined,
                                Warning(newName, skills[at], context.incoming),
                                context.incoming.name)]
        ELSE [resolution |-> "keep-both",
              result |-> Result("rename", Undefined, newName, Undefined,
                                context.incoming.name)]

\* variant: keep-both never looks for an occupant of the renamed slot
handleConflict_NoCascade(context, skills, choice) ==
    IF choice = <<"s">> THEN SkipOutcome
    ELSE IF choice = <<"r">> THEN ReplaceOutcome(context)
    ELSE IF choice = <<"k">>
    THEN [resolution |-> "keep-both",
          result |-> Result("rename", Undefined, getRenamedName(context),
                            Undefined, context.incoming.name)]
    ELSE SkipOutcome

\* variant: an unrecognised choice falls into the replace case
handleConflict_DefaultReplace(context, skills, choice) ==
    IF choice = <<"s">> THEN SkipOutcome
    ELSE IF choice = <<"k">> THEN KeepBothOutcome(context, skills)
    ELSE ReplaceOutcome(context)

\* variant: the skip case falls through into the replace case
handleConflict_SkipFallsThrough(context, skills, choice) ==
    IF choice \in {<<"s">>, <<"r">>} THEN ReplaceOutcome(context)
    ELSE IF choice = <<"k">> THEN KeepBothOutcome(context, skills)
    ELSE SkipOutcome

\* ConflictResolver.handleConflict, given the choice read from the operator
\* or from the default strategy: the resolution it stores in the context and
\* the result it returns
handleConflict(context, skills, choice) ==
    IF choice = <<"s">> THEN SkipOutcome
    ELSE IF choice = <<"r">> THEN ReplaceOutcome(context)
    ELSE IF choice = <<"k">> THEN KeepBothOutcome(context, skills)
    ELSE SkipOutcome

\* variant: replace writes the incoming record without renaming it
applyResolution_KeepName(context, result, skills) ==
    CASE result.action = "replace" ->
            LET index == findIndex(skills, result.target)
            IN  IF index # 0
                THEN [skills EXCEPT ![index] = context.incoming]
                ELSE skills
      [] result.action = "rename" ->
            Append(skills, [context.incoming EXCEPT
                               !.name = result.newName,
                               !.originalName = result.originalName])
      [] OTHER -> skills

\* variant: replace appends the incoming record instead of overwriting
applyResolution_ReplaceAppends(context, result, skills) ==
    CASE result.action = "replace" ->
            Append(skills, [context.incoming EXCEPT !.name = result.target])
      [] result.action = "rename" ->
            Append(skills, [context.incoming EXCEPT
                               !.name = result.newName,
                               !.originalName = result.originalName])
      [] OTHER -> skills

\* variant: rename works on a copy, the caller's registry is not extended
applyResolution_NoPush(context, result, skills) ==
    CASE result.action = "replace" ->
            LET index == findIndex(skills, result.target)
            IN  IF index # 0
                THEN [skills EXCEPT ![index] =
                         [context.incoming EXCEPT !.name = result.target]]
                ELSE skills
      [] OTHER -> skills

\* ConflictResolver.applyResolution: the registry after the result is applied
applyResolution(context, result, skills) ==
    CASE result.action = "skip" -> skills
      [] result.action = "replace" ->
            LET index == findIndex(skills, result.target)
            IN  IF index # 0
                THEN [skills EXCEPT ![index] =
                         [context.incoming EXCEPT !.name = result.target]]
                ELSE skills
      [] result.action = "rename" ->
            Append(skills, [context.incoming EXCEPT
                               !.name = result.newName,
                               !.originalName = result.originalName])
      [] OTHER -> skills

\* resolved.filter(r => r.result.action === action).length
CountAction(log, action) ==
    Cardinality({k \in 1..Len(log) : log[k].result.action = action})

\* variant: every result that carries an originalName counts as renamed
getStats_RenamedByOriginalName(log) ==
    [total |-> Len(log),
     skipped |-> CountAction(log, "skip"),
     replaced |-> CountAction(log, "replace"),
     renamed |-> Cardinality({k \in 1..Len(log) :
                                 log[k].result.originalName # Undefined})]

\* ConflictResolver.getStats, over this.resolved
getStats(log) ==
    [total |-> Len(log),
     skipped |-> CountAction(log, "skip"),
     replaced |-> CountAction(log, "replace"),
     renamed |-> CountAction(log, "rename")]

(***************************************************************************)
(* The other components at rest: nothing persisted, no call made.          *)
(***************************************************************************)
\* the skill names the output writer is called with
StoreNames == {"docs", "lint"}

NoCheck == [called |-> FALSE]
NoSave  == [called |-> FALSE]

StoreIdle ==
    /\ skillsJson = [n \in StoreNames |-> NoSkill]
    /\ collection = [n \in StoreNames |-> NoSkill]
    /\ now = 0
    /\ lastCheck = NoCheck
    /\ lastSave = NoSave

NoTagsCall == [applied |-> 0]

NoRetry == [pc |-> "idle"]

NoFetch == [pc |-> "idle"]

NoParse == [called |-> FALSE]

NoMerge == [pc |-> "idle"]

NoSync == [pc |-> "idle"]

NoCli == [pc |-> "idle"]

NoWalk == [pc |-> "idle"]

SyncIdle ==
    /\ parseCall = NoParse
    /\ mergeCall = NoMerge
    /\ sync = NoSync
    /\ cli = NoCli
    /\ walk = NoWalk

ExtIdle ==
    /\ StoreIdle
    /\ tagsCall = NoTagsCall
    /\ retry = NoRetry
    /\ fetcher = NoFetch
    /\ SyncIdle

(***************************************************************************)
(* The resolver as a state machine.                                        *)
(***************************************************************************)
\* new ConflictResolver(options): the options a caller may pass
ResolverOptions ==
    {[nonInteractive |-> FALSE, defaultStrategy |-> <<>>]}
        \cup {[nonInteractive |-> TRUE, defaultStrategy |-> st] :
                 st \in StrategyOptions}

NoCall == [existing |-> NoSkill, incoming |-> NoSkill, returned |-> FALSE]

resolverVars == <<allLocalSkills, queue, resolved, nonInteractive,
                  defaultStrategy, pc, i, runBase, answer>>

Init ==
    /\ allLocalSkills \in LocalStores
    /\ queue = <<>>
    /\ resolved = <<>>
    /\ \E options \in ResolverOptions :
          /\ nonInteractive = options.nonInteractive
          /\ defaultStrategy = IF options.defaultStrategy = <<>> THEN StrSkip
                               ELSE options.defaultStrategy
    /\ pc = "idle"
    /\ i = 0
    /\ runBase = 0
    /\ answer = <<>>
    /\ conflictCall = NoCall
    /\ ExtIdle

\* the skills of the registry, as a set
RegistrySkills == {allLocalSkills[k] : k \in 1..Len(allLocalSkills)}

\* ConflictResolver.addConflict(existing, incoming); the callers are
\* sequential, so no conflict is added while resolveAll is in its loop
addConflict(existing, incoming) ==
    /\ pc \in {"idle", "returned"}
    /\ Len(queue) < MaxQueue
    /\ queue' = Append(queue, ConflictContext(existing, incoming))
    /\ UNCHANGED <<allLocalSkills, resolved, nonInteractive, defaultStrategy,
                   pc, i, runBase, answer, conflictCall, extVars>>

\* ConflictResolver.resolveAll is called: the loop starts at i = 0
resolveAllCall ==
    /\ pc \in {"idle", "returned"}
    /\ Len(resolved) < MaxLog
    /\ pc' = "loop"
    /\ i' = 0
    /\ runBase' = Len(resolved)
    /\ UNCHANGED <<allLocalSkills, queue, resolved, nonInteractive,
                   defaultStrategy, answer, conflictCall, extVars>>

\* variant: a skipped conflict is not logged
resolveOne_SkipNotLogged(choice) ==
    LET context == queue[i + 1]
        h       == handleConflict(context, allLocalSkills, choice)
    IN  /\ queue' = [queue EXCEPT ![i + 1].resolution = h.resolution]
        /\ allLocalSkills' = applyResolution(context, h.result, allLocalSkills)
        /\ resolved' = IF h.result.action = "skip" THEN resolved
                       ELSE Append(resolved,
                                   [conflict |-> i + 1, result |-> h.result])
        /\ i' = i + 1

\* one iteration of resolveAll's loop with the given choice: handleConflict,
\* applyResolution, resolved.push
resolveOne(choice) ==
    LET context == queue[i + 1]
        h       == handleConflict(context, allLocalSkills, choice)
    IN  /\ queue' = [queue EXCEPT ![i + 1].resolution = h.resolution]
        /\ allLocalSkills' = applyResolution(context, h.result, allLocalSkills)
        /\ resolved' = Append(resolved, [conflict |-> i + 1, result |-> h.result])
        /\ i' = i + 1

\* an iteration in non-interactive mode: the choice is the first character
\* of the default strategy
resolveNonInteractive ==
    /\ pc = "loop"
    /\ i < Len(queue)
    /\ nonInteractive
    /\ resolveOne(charAt0(defaultStrategy))
    /\ UNCHANGED <<nonInteractive, defaultStrategy, pc, runBase, answer,
                   conflictCall, extVars>>

\* an iteration in interactive mode: the choice is what the operator typed
resolveInteractive(typed) ==
    /\ pc = "loop"
    /\ i < Len(queue)
    /\ ~nonInteractive
    /\ answer' = typed
    /\ resolveOne(promptUser(typed))
    /\ UNCHANGED <<nonInteractive, defaultStrategy, pc, runBase, conflictCall,
                   extVars>>

\* the loop is over: resolveAll returns this.resolved
resolveAllReturn ==
    /\ pc = "loop"
    /\ i >= Len(queue)
    /\ pc' = "returned"
    /\ UNCHANGED <<allLocalSkills, queue, resolved, nonInteractive,
                   defaultStrategy, i, runBase, answer, conflictCall, extVars>>

Next ==
    \/ \E existing \in RegistrySkills, incoming \in Incomings :
          addConflict(existing, incoming)
    \/ resolveAllCall
    \/ resolveNonInteractive
    \/ \E typed \in Answers : resolveInteractive(typed)
    \/ resolveAllReturn

Spec == Init /\ [][Next]_vars

(***************************************************************************)
(* isConflict as a function of its arguments: a second specification that  *)
(* calls it on every pair of a bounded set of records.                     *)
(***************************************************************************)
ConflictNames  == {"docs", "lint"}
ConflictOwners == {Undefined, "", "acme"}
ConflictUrls   == {<<>>, UrlAcme, UrlBeta, UrlBare, UrlShort}

\* the records isConflict is called on: `existing` has either name,
\* `incoming` is named "docs"
ConflictSkills ==
    {Skill(n, o, Undefined, u, "1.0") :
        n \in ConflictNames, o \in ConflictOwners, u \in ConflictUrls}

ConflictIncomings == {s \in ConflictSkills : s.name = "docs"}

InitConflict ==
    /\ allLocalSkills = <<>>
    /\ queue = <<>>
    /\ resolved = <<>>
    /\ nonInteractive = FALSE
    /\ defaultStrategy = StrSkip
    /\ pc = "idle"
    /\ i = 0
    /\ runBase = 0
    /\ answer = <<>>
    /\ conflictCall = NoCall
    /\ ExtIdle

\* a call isConflict(existing, incoming)
isConflictCall(existing, incoming) ==
    /\ conflictCall' = [existing |-> existing, incoming |-> incoming,
                        returned |-> isConflict(existing, incoming)]
    /\ UNCHANGED <<resolverVars, extVars>>

NextConflict ==
    \E existing \in ConflictSkills \cup {NoSkill}, incoming \in ConflictIncomings :
        isConflictCall(existing, incoming)

SpecConflict == InitConflict /\ [][NextConflict]_vars

(***************************************************************************)
(* Properties of the conflict resolver.                                    *)
(***************************************************************************)
\* the step is one iteration of resolveAll's loop
ResolveStep == pc = "loop" /\ i' = i + 1
\* the context the step resolves, before and after the step
StepContext == queue[i + 1]
StepContextAfter == queue'[i + 1]
\* the choice the step acts on: the operator's answer, trimmed and
\* lower-cased, or the first character of the default strategy
StepChoice ==
    IF nonInteractive THEN charAt0(defaultStrategy) ELSE promptUser(answer')
\* the result the step logs
StepResult == resolved'[Len(resolved')].result
\* "<incomingOwner>-<incoming.name>" for a context
RenamedIdentifier(context) ==
    (IF context.incoming.owner \in {Undefined, ""}
     THEN parseOwnerRepo(context.incoming.sourceUrl).owner
     ELSE context.incoming.owner) \o "-" \o context.incoming.name
\* the registry holds a record of that name
Holds(skills, n) == \E k \in 1..Len(skills) : skills[k].name = n

\* C1: the names of the registry stay pairwise distinct through every
\* resolution step of resolveAll, whatever the queue and the choices.
C1_NamesDistinct ==
    \A a, b \in 1..Len(allLocalSkills) :
        a # b => allLocalSkills[a].name # allLocalSkills[b].name

\* C1 witness: a run has returned after appending a renamed record and
\* overwriting another one.
C1_Witness ==
    /\ pc = "returned"
    /\ Len(allLocalSkills) > 2
    /\ \E j \in 1..Len(resolved) : resolved[j].result.action = "replace"

\* C2: isConflict returns true exactly when existing is present, the names
\* are equal and the derived owners (owner field, else the owner parsed
\* from sourceUrl) differ.
C2_IsConflictExact ==
    conflictCall.incoming # NoSkill =>
        LET e == conflictCall.existing
            n == conflictCall.incoming
            Owner(s) == IF s.owner \in {Undefined, ""}
                        THEN parseOwnerRepo(s.sourceUrl).owner ELSE s.owner
        IN  conflictCall.returned
                <=> (e # NoSkill /\ e.name = n.name /\ Owner(e) # Owner(n))

\* C2 witness: a call returned true for two records of one name whose owners
\* both come from the sourceUrl.
C2_Witness ==
    /\ conflictCall.returned
    /\ conflictCall.existing.owner = Undefined
    /\ conflictCall.incoming.owner = Undefined

\* C3: keep-both, when no registry record has the renamed identifier,
\* returns action rename with newName "<incomingOwner>-<incoming.name>" and
\* originalName incoming.name, and appends exactly one record of that name,
\* carrying originalName, to the registry.
C3_KeepBothRenames ==
    [][(/\ ResolveStep
        /\ StepChoice = <<"k">>
        /\ ~Holds(allLocalSkills, RenamedIdentifier(StepContext)))
       => /\ StepResult.action = "rename"
          /\ StepResult.newName = RenamedIdentifier(StepContext)
          /\ StepResult.originalName = StepContext.incoming.name
          /\ allLocalSkills' =
                Append(allLocalSkills,
                       [StepContext.incoming EXCEPT
                           !.name = RenamedIdentifier(StepContext),
                           !.originalName = StepContext.incoming.name])]_vars

\* C3 witness: a record renamed after an owner that was parsed from the
\* sourceUrl sits at the end of the registry.
C3_Witness ==
    /\ Len(allLocalSkills) = 3
    /\ allLocalSkills[3].name = "beta-docs"
    /\ allLocalSkills[3].owner = Undefined
    /\ allLocalSkills[3].originalName = "docs"
    /\ resolved # <<>>
    /\ resolved[Len(resolved)].result.action = "rename"

\* C4: keep-both, when a registry record already has the renamed identifier,
\* returns action replace with that identifier as target, a non-empty
\* warning and originalName incoming.name; the occupant is overwritten by
\* the incoming record under the renamed identifier and nothing is appended.
C4_KeepBothCascades ==
    [][(/\ ResolveStep
        /\ StepChoice = <<"k">>
        /\ Holds(allLocalSkills, RenamedIdentifier(StepContext)))
       => /\ StepResult.action = "replace"
          /\ StepResult.target = RenamedIdentifier(StepContext)
          /\ StepResult.warning \notin {Undefined, ""}
          /\ StepResult.originalName = StepContext.incoming.name
          /\ Len(allLocalSkills') = Len(allLocalSkills)
          /\ \A k \in 1..Len(allLocalSkills) :
                allLocalSkills'[k] =
                    IF allLocalSkills[k].name = RenamedIdentifier(StepContext)
                    THEN [StepContext.incoming EXCEPT
                             !.name = RenamedIdentifier(StepContext)]
                    ELSE allLocalSkills[k]]_vars

\* C4 witness: the occupant "beta-docs" of the initial store (owner gamma)
\* has been overwritten by an incoming "docs" whose owner, beta, comes from
\* its sourceUrl, with a warning.
C4_Witness ==
    /\ Len(allLocalSkills) = 2
    /\ allLocalSkills[2].name = "beta-docs"
    /\ allLocalSkills[2].version = "2.1"
    /\ resolved # <<>>
    /\ resolved[Len(resolved)].result.action = "replace"
    /\ resolved[Len(resolved)].result.target = "beta-docs"
    /\ resolved[Len(resolved)].result.warning # Undefined

\* C5: when resolveAll returns, it has appended to the resolved-history log
\* exactly one entry per queued context, the j-th of them for the j-th
\* context of the queue, whatever branch each resolution took.
C5_OnePerContextInOrder ==
    [][(pc = "loop" /\ pc' = "returned")
       => /\ Len(resolved') = runBase' + Len(queue')
          /\ \A j \in 1..Len(queue') :
                resolved'[runBase' + j].conflict = j]_vars

\* C5 witness: a run over two conflicts has returned, one of them skipped
\* and the other not.
C5_Witness ==
    /\ pc = "returned"
    /\ Len(queue) = 2
    /\ Len(resolved) = runBase + 2
    /\ resolved[runBase + 1].result.action = "skip"
    /\ resolved[runBase + 2].result.action # "skip"

\* C6: within one run, when the context resolved just before had the same
\* incoming owner and name and was resolved keep-both, a keep-both
\* resolution finds the renamed record in the registry: it yields action
\* replace with the renamed identifier as target, and a warning.
C6_MutationVisibleToNext ==
    [][(/\ ResolveStep
        /\ i >= 1
        /\ StepChoice = <<"k">>
        /\ queue[i].resolution = "keep-both"
        /\ RenamedIdentifier(queue[i]) = RenamedIdentifier(StepContext))
       => /\ StepResult.action = "replace"
          /\ StepResult.target = RenamedIdentifier(StepContext)
          /\ StepResult.warning \notin {Undefined, ""}]_vars

\* C6 witness: two consecutive conflicts with the same incoming owner and
\* name; the first was renamed, the second replaced the renamed record.
C6_Witness ==
    /\ Len(resolved) = 2
    /\ resolved[1].conflict = 1
    /\ resolved[2].conflict = 2
    /\ RenamedIdentifier(queue[1]) = RenamedIdentifier(queue[2])
    /\ resolved[1].result.action = "rename"
    /\ resolved[2].result.action = "replace"
    /\ resolved[2].result.target = resolved[1].result.newName
    /\ resolved[2].result.warning # Undefined

\* C7: every ConflictContext is resolved exactly once: it never appears
\* twice in the resolved-history log.
C7_ResolvedOnce ==
    \A c \in 1..Len(queue) :
        Cardinality({j \in 1..Len(resolved) : resolved[j].conflict = c}) <= 1

\* C8: handleConflict is total: every step ends with a result whose action
\* is skip, replace or rename and a resolution that is skip, replace or
\* keep-both; an interactive answer other than s, r, k (trimmed and
\* lower-cased) resolves as skip and leaves the registry as it was.
C8_HandleConflictTotal ==
    [][ResolveStep
       => /\ StepResult.action \in {"skip", "replace", "rename"}
          /\ StepContextAfter.resolution \in {"skip", "replace", "keep-both"}
          /\ (~nonInteractive
                 /\ promptUser(answer') \notin {<<"s">>, <<"r">>, <<"k">>})
             => /\ StepResult.action = "skip"
                /\ StepContextAfter.resolution = "skip"
                /\ allLocalSkills' = allLocalSkills]_vars

\* C8 witness: the operator typed something unrecognised and the conflict
\* was skipped.
C8_Witness ==
    /\ ~nonInteractive
    /\ answer \in {<<>>, <<"s", "k">>}
    /\ resolved # <<>>
    /\ resolved[Len(resolved)].result.action = "skip"
    /\ queue[resolved[Len(resolved)].conflict].resolution = "skip"

\* C9: resolving a conflict as skip ends with action skip and leaves the
\* registry unchanged: same length, same records, same order.
C9_SkipLeavesRegistry ==
    [][(ResolveStep /\ StepChoice = <<"s">>)
       => /\ StepResult.action = "skip"
          /\ allLocalSkills' = allLocalSkills]_vars

\* C9 witness: a conflict whose incoming record differs from the registry's
\* was resolved with the choice skip.
C9_Witness ==
    /\ resolved # <<>>
    /\ resolved[Len(resolved)].result.action = "skip"
    /\ queue[resolved[Len(resolved)].conflict].resolution = "skip"
    /\ (nonInteractive \/ answer = <<"s">>)
    /\ nonInteractive => defaultStrategy = StrSkip

\* C10: resolving a conflict as replace returns action replace with target
\* existing.name; the registry record of that name is overwritten in place
\* by the incoming record, named existing.name; the length, the position
\* and name of every record, and every other record are unchanged.
C10_ReplaceInPlace ==
    [][(ResolveStep /\ StepChoice = <<"r">>)
       => /\ StepResult.action = "replace"
          /\ StepResult.target = StepContext.existing.name
          /\ Len(allLocalSkills') = Len(allLocalSkills)
          /\ \A k \in 1..Len(allLocalSkills) :
                /\ allLocalSkills'[k].name = allLocalSkills[k].name
                /\ allLocalSkills'[k] =
                      IF allLocalSkills[k].name = StepContext.existing.name
                      THEN [StepContext.incoming EXCEPT
                               !.name = StepContext.existing.name]
                      ELSE allLocalSkills[k]]_vars

\* C10 witness: the record "lint" of the registry now holds the fields of
\* an incoming "docs" record, still under the name "lint".
C10_Witness ==
    /\ resolved # <<>>
    /\ resolved[Len(resolved)].result.action = "replace"
    /\ resolved[Len(resolved)].result.target = "lint"
    /\ Len(allLocalSkills) = 2
    /\ allLocalSkills[2].name = "lint"
    /\ allLocalSkills[2].version = "2.1"
    /\ allLocalSkills[1].version = "1.0"

\* the length of the registry the resolver was handed: every local store a
\* run starts from holds this many records
InitialLength == Len(CHOOSE store \in LocalStores : TRUE)

\* C36: the registry is as long as it was at the start plus one record per
\* result with action rename, a resolution with action skip or replace
\* never changes its length, and getStats reports
\* total = skipped + replaced + renamed = the length of the resolved log.
C36_RegistryLengthAndStats ==
    /\ [](LET stats == getStats(resolved)
          IN  /\ \A store \in LocalStores : Len(store) = InitialLength
              /\ stats.total = Len(resolved)
              /\ stats.total = stats.skipped + stats.replaced + stats.renamed
              /\ Len(allLocalSkills) = InitialLength + stats.renamed)
    /\ [][ResolveStep =>
            Len(allLocalSkills') =
                Len(allLocalSkills)
                    + (IF StepResult.action = "rename" THEN 1 ELSE 0)]_vars

\* C36 witness: resolveAll has returned after a rename and a replace; the
\* registry has grown by the one renamed record.
C36_Witness ==
    /\ pc = "returned"
    /\ getStats(resolved) =
           [total |-> 2, skipped |-> 0, replaced |-> 1, renamed |-> 1]
    /\ Len(allLocalSkills) = InitialLength + 1

\* the step resolves its context keep-both
KeepBothStep == ResolveStep /\ StepChoice = <<"k">>

\* the step leaves every record named like the context's existing record
\* as it was and where it was
ExistingUntouched ==
    /\ RenamedIdentifier(StepContext) # StepContext.existing.name
    /\ \A k \in 1..Len(allLocalSkills) :
          allLocalSkills[k].name = StepContext.existing.name =>
              allLocalSkills'[k] = allLocalSkills[k]

\* C37 as stated: a keep-both resolution never modifies or removes the
\* context's existing record; in the rename branch and in the cascading
\* replace branch the renamed identifier differs from existing.name.
C37_KeepBothFrame == [][KeepBothStep => ExistingUntouched]_vars

\* C37: for a context whose existing and incoming records share a name, a
\* keep-both resolution never modifies or removes the existing record: in
\* both branches the renamed identifier differs from existing.name and
\* the registry record of that name is the same before and after.
C37_KeepBothFrameSameName ==
    [][(KeepBothStep /\ StepContext.existing.name = StepContext.incoming.name)
           => ExistingUntouched]_vars

\* C37 witness: two same-name conflicts were resolved keep-both, the first
\* by a rename and the second by the cascading replace, and the existing
\* record "docs" is still the registry's first record.
C37_Witness ==
    /\ Len(resolved) = 2
    /\ queue[1].resolution = "keep-both" /\ queue[2].resolution = "keep-both"
    /\ queue[1].existing.name = "docs" /\ queue[2].existing.name = "docs"
    /\ resolved[1].result.action = "rename"
    /\ resolved[2].result.action = "replace"
    /\ allLocalSkills[1] = queue[1].existing

----
(***************************************************************************)
(* Part 2: the output writer (extractors.js, OutputWriter): readSkillJson, *)
(* checkNeedsUpdate, saveSkill.                                            *)
(*                                                                         *)
(* A tag is a sequence of characters, a tag list a sequence of tags: the   *)
(* code sorts the tags and joins them with commas.  The other fields are   *)
(* only compared and copied, so they are TLA+ strings.                     *)
(***************************************************************************)
\* the UTF-16 code unit of a character: Array.prototype.sort without a
\* comparator orders strings by code units
CharCode(c) ==
    CASE c = " " -> 32 [] c = "," -> 44 [] c = ";" -> 59
      [] c = "A" -> 65 [] c = "B" -> 66 [] c = "C" -> 67
      [] c = "a" -> 97 [] c = "b" -> 98 [] c = "c" -> 99

\* x < y as JavaScript compares strings
RECURSIVE StringLess(_, _)
StringLess(x, y) ==
    IF y = <<>> THEN FALSE
    ELSE IF x = <<>> THEN TRUE
    ELSE IF Head(x) # Head(y) THEN CharCode(Head(x)) < CharCode(Head(y))
    ELSE StringLess(Tail(x), Tail(y))

\* the list with t inserted before the first element greater than t
RECURSIVE SortedInsert(_, _)
SortedInsert(t, ts) ==
    IF ts = <<>> THEN <<t>>
    ELSE IF StringLess(t, Head(ts)) THEN <<t>> \o ts
    ELSE <<Head(ts)>> \o SortedInsert(t, Tail(ts))

\* tags.sort(): the array in ascending order
RECURSIVE sort(_)
sort(ts) ==
    IF ts = <<>> THEN <<>>
    ELSE SortedInsert(ts[Len(ts)], sort(SubSeq(ts, 1, Len(ts) - 1)))

\* tags.join(','): one string
RECURSIVE join(_)
join(ts) ==
    IF ts = <<>> THEN <<>>
    ELSE IF Len(ts) = 1 THEN ts[1]
    ELSE ts[1] \o <<",">> \o join(Tail(ts))

\* the features of a skill, as extractFromApiData builds them
Features(n, d, v, a, u, t) ==
    [name |-> n, description |-> d, version |-> v, author |-> a,
     sourceUrl |-> u, tags |-> t, stars |-> 0]

\* the document saveSkill writes to skills-json/<skillName>.json
SkillJsonData(skillName, features, stamp) ==
    [name |-> features.name, path |-> skillName,
     description |-> features.description, tags |-> features.tags,
     version |-> features.version, author |-> features.author,
     sourceUrl |-> features.sourceUrl, stars |-> features.stars,
     updatedAt |-> stamp]

\* readSkillJson(skillName): the persisted document, or null
readSkillJson(skillName) == skillsJson[skillName]

fieldsToCheck == <<"description", "version", "author", "sourceUrl">>

\* the reasons checkNeedsUpdate gives
ReasonNew       == [text |-> "new"]
ReasonUnchanged == [text |-> "unchanged"]
ReasonTags      == [text |-> "tags changed"]
ReasonField(field, oldValue, newValue) ==
    [text |-> "changed", field |-> field,
     oldValue |-> oldValue, newValue |-> newValue]

\* variant: the persisted tags are joined as they are stored
checkNeedsUpdate_StoredUnsorted(skillName, newData) ==
    LET existingSkillJson == readSkillJson(skillName)
        differing == {k \in 1..Len(fieldsToCheck) :
                         existingSkillJson[fieldsToCheck[k]]
                             # newData[fieldsToCheck[k]]}
        first   == CHOOSE k \in differing : \A m \in differing : k <= m
        oldTags == join(existingSkillJson.tags)
        newTags == join(sort(newData.tags))
        sorted  == [newData EXCEPT !.tags = sort(newData.tags)]
    IN  IF existingSkillJson = NoSkill
        THEN [needsUpdate |-> TRUE, reason |-> ReasonNew, newData |-> newData]
        ELSE IF differing # {}
        THEN [needsUpdate |-> TRUE,
              reason |-> ReasonField(fieldsToCheck[first],
                                     existingSkillJson[fieldsToCheck[first]],
                                     newData[fieldsToCheck[first]]),
              newData |-> newData]
        ELSE IF oldTags # newTags
        THEN [needsUpdate |-> TRUE, reason |-> ReasonTags, newData |-> sorted]
        ELSE [needsUpdate |-> FALSE, reason |-> ReasonUnchanged,
              newData |-> sorted]

\* checkNeedsUpdate(skillName, newData): {needsUpdate, reason}, and newData
\* as the call leaves it (newData.tags.sort() sorts the caller's array)
checkNeedsUpdate(skillName, newData) ==
    LET existingSkillJson == readSkillJson(skillName)
        differing == {k \in 1..Len(fieldsToCheck) :
                         existingSkillJson[fieldsToCheck[k]]
                             # newData[fieldsToCheck[k]]}
        first   == CHOOSE k \in differing : \A m \in differing : k <= m
        oldTags == join(sort(existingSkillJson.tags))
        newTags == join(sort(newData.tags))
        sorted  == [newData EXCEPT !.tags = sort(newData.tags)]
    IN  IF existingSkillJson = NoSkill
        THEN [needsUpdate |-> TRUE, reason |-> ReasonNew, newData |-> newData]
        ELSE IF differing # {}
        THEN [needsUpdate |-> TRUE,
              reason |-> ReasonField(fieldsToCheck[first],
                                     existingSkillJson[fieldsToCheck[first]],
                                     newData[fieldsToCheck[first]]),
              newData |-> newData]
        ELSE IF oldTags # newTags
        THEN [needsUpdate |-> TRUE, reason |-> ReasonTags, newData |-> sorted]
        ELSE [needsUpdate |-> FALSE, reason |-> ReasonUnchanged,
              newData |-> sorted]

\* the files of a skill directory after writing `written` over `files`
WriteFiles(files, written) ==
    {f \in files : \A w \in written : w.path # f.path} \cup written

\* a call checkNeedsUpdate(skillName, newData)
checkNeedsUpdateCall(skillName, newData) ==
    LET r == checkNeedsUpdate(skillName, newData)
    IN  /\ lastCheck' = [called |-> TRUE, skillName |-> skillName,
                         existing |-> readSkillJson(skillName),
                         incoming |-> newData, incomingAfter |-> r.newData,
                         returned |-> [needsUpdate |-> r.needsUpdate,
                                       reason |-> r.reason]]
        /\ UNCHANGED <<skillsJson, collection, now, lastSave>>

\* a call saveSkill(skillData, features): it returns 'skipped' without
\* writing, or writes SKILL.md, the files and the JSON document
saveSkill(skillData, features) ==
    LET skillName == skillData.name
        r         == checkNeedsUpdate(skillName, features)
        dir       == collection[skillName]
        oldFiles  == IF dir = NoSkill THEN {} ELSE dir.files
        skillJsonData == SkillJsonData(skillName, r.newData, now)
        action    == IF r.reason = ReasonNew THEN "created" ELSE "updated"
    IN  /\ now' = now + 1
        /\ IF ~r.needsUpdate
           THEN /\ lastSave' = [called |-> TRUE, skillData |-> skillData,
                                features |-> features,
                                returned |-> [saved |-> FALSE,
                                              action |-> "skipped",
                                              reason |-> r.reason]]
                /\ UNCHANGED <<skillsJson, collection>>
           ELSE /\ collection' =
                      [collection EXCEPT
                          ![skillName] =
                              [skillMd |-> IF Falsy(skillData.content) THEN ""
                                           ELSE skillData.content,
                               files |-> WriteFiles(oldFiles, skillData.files)]]
                /\ skillsJson' = [skillsJson EXCEPT ![skillName] = skillJsonData]
                /\ lastSave' = [called |-> TRUE, skillData |-> skillData,
                                features |-> features,
                                returned |-> [saved |-> TRUE, action |-> action,
                                              data |-> skillJsonData]]
        /\ UNCHANGED lastCheck

(***************************************************************************)
(* checkNeedsUpdate as a function of the persisted document and the        *)
(* incoming features: a specification that starts from any one persisted   *)
(* document, or none, and calls it.                                        *)
(***************************************************************************)
TagA  == <<"a">>
TagB  == <<"b">>
TagAB == <<"a", ",", "b">>
TagLists == {<<TagB, TagA>>, <<TagA, TagB>>, <<TagAB>>, <<TagA>>}

UrlDocs == "https://github.com/acme/docs"
UrlFork == "https://github.com/beta/docs"

CheckFeatures ==
    {Features("docs", d, v, a, u, t) :
        d \in {"Writes docs", "Writes documents"}, v \in {"1.0", "1.1"},
        a \in {"ann", "bob"}, u \in {UrlDocs, UrlFork}, t \in TagLists}

ResolverIdle ==
    /\ allLocalSkills = <<>>
    /\ queue = <<>>
    /\ resolved = <<>>
    /\ nonInteractive = FALSE
    /\ defaultStrategy = StrSkip
    /\ pc = "idle"
    /\ i = 0
    /\ runBase = 0
    /\ answer = <<>>
    /\ conflictCall = NoCall

InitCheck ==
    /\ ResolverIdle
    /\ SyncIdle
    /\ tagsCall = NoTagsCall
    /\ retry = NoRetry
    /\ fetcher = NoFetch
    /\ \E persisted \in {SkillJsonData("docs", f, 0) : f \in CheckFeatures}
                            \cup {NoSkill} :
          skillsJson = [n \in StoreNames |->
                           IF n = "docs" THEN persisted ELSE NoSkill]
    /\ collection = [n \in StoreNames |-> NoSkill]
    /\ now = 1
    /\ lastCheck = NoCheck
    /\ lastSave = NoSave

NextCheck ==
    \E newData \in CheckFeatures :
        /\ checkNeedsUpdateCall("docs", newData)
        /\ UNCHANGED <<resolverVars, conflictCall, syncVars, tagsCall, retry, fetcher>>

SpecCheck == InitCheck /\ [][NextCheck]_vars

(***************************************************************************)
(* saveSkill on an empty output directory: a specification that saves      *)
(* skills one after the other.                                             *)
(***************************************************************************)
\* the number of saveSkill calls of a run
MaxSaves == 3

SaveDatas ==
    {[name |-> "docs", content |-> "# docs",
      files |-> {[path |-> "ref/a.md", content |-> "A"]}],
     [name |-> "docs", content |-> Undefined, files |-> {}],
     [name |-> "lint", content |-> "# lint", files |-> {}]}

SaveFeatures(n) ==
    {Features(n, d, "1.0", "ann", UrlDocs, t) :
        d \in {"Writes docs", "Writes documents"},
        t \in {<<TagB, TagA>>, <<TagA, TagB>>}}

InitSave ==
    /\ ResolverIdle
    /\ SyncIdle
    /\ StoreIdle
    /\ tagsCall = NoTagsCall
    /\ retry = NoRetry
    /\ fetcher = NoFetch

NextSave ==
    \E skillData \in SaveDatas :
        \E features \in SaveFeatures(skillData.name) :
            /\ now < MaxSaves
            /\ saveSkill(skillData, features)
            /\ UNCHANGED <<resolverVars, conflictCall, syncVars, tagsCall, retry, fetcher>>

SpecSave == InitSave /\ [][NextSave]_vars

(***************************************************************************)
(* Properties of the output writer.                                        *)
(***************************************************************************)
trackedFields == <<"description", "version", "author", "sourceUrl", "tags">>

\* the tracked field has the same value in both records; tag lists are
\* compared after sorting
SameField(e, n, field) ==
    IF field = "tags" THEN sort(e.tags) = sort(n.tags) ELSE e[field] = n[field]

\* the reason names the field
Cites(reason, field) ==
    IF field = "tags" THEN reason = ReasonTags
    ELSE reason.text = "changed" /\ reason.field = field

\* C11: checkNeedsUpdate returns (true, new) when no record is persisted
\* under the name, (false, unchanged) when description, version, author and
\* sourceUrl are equal and the sorted tag lists are equal, and otherwise
\* true with a reason that names the first differing field in the order
\* description, version, author, sourceUrl, tags.
C11_CheckNeedsUpdateTable ==
    lastCheck.called =>
        LET e == lastCheck.existing
            n == lastCheck.incoming
            r == lastCheck.returned
            differing == {k \in 1..Len(trackedFields) :
                             ~SameField(e, n, trackedFields[k])}
            first == CHOOSE k \in differing : \A m \in differing : k <= m
        IN  IF e = NoSkill THEN r.needsUpdate /\ r.reason = ReasonNew
            ELSE IF differing = {}
            THEN ~r.needsUpdate /\ r.reason = ReasonUnchanged
            ELSE r.needsUpdate /\ Cites(r.reason, trackedFields[first])

\* the tags of a record, as a set
TagSet(n) == {n.tags[k] : k \in 1..Len(n.tags)}

\* b differs from a in the tracked field and in no other tracked field
OnlyFieldChanged(a, b, field) ==
    /\ IF field = "tags" THEN TagSet(a) # TagSet(b) ELSE a[field] # b[field]
    /\ \A k \in 1..Len(trackedFields) :
          trackedFields[k] # field =>
              IF trackedFields[k] = "tags" THEN TagSet(a) = TagSet(b)
              ELSE a[trackedFields[k]] = b[trackedFields[k]]

\* C12: against an unchanged store, a call that follows a call that
\* returned false returns false again when the incoming features are the
\* same, and returns true with a reason citing the field when exactly one
\* tracked field (the tag set included) has changed.
C12_IdempotentAndSensitive ==
    [][(lastCheck.called /\ lastCheck'.called /\ skillsJson' = skillsJson
           /\ ~lastCheck.returned.needsUpdate) =>
          /\ lastCheck'.incoming = lastCheck.incoming =>
                ~lastCheck'.returned.needsUpdate
          /\ \A k \in 1..Len(trackedFields) :
                OnlyFieldChanged(lastCheck.incoming, lastCheck'.incoming,
                                 trackedFields[k]) =>
                    /\ lastCheck'.returned.needsUpdate
                    /\ Cites(lastCheck'.returned.reason, trackedFields[k])]_vars

\* C13: a checkNeedsUpdate call changes neither the store nor the incoming
\* features, the order of incoming.tags included.
C13_NoSideEffects ==
    [][lastCheck'.called =>
          /\ skillsJson' = skillsJson
          /\ collection' = collection
          /\ lastCheck'.incomingAfter = lastCheck'.incoming]_vars

\* C14: a saveSkill call that follows a saveSkill call that saved the same
\* data and features returns saved = false with action 'skipped' and writes
\* nothing: the JSON documents, SKILL.md and the files are as they were.
C14_SecondSaveSkips ==
    [][(lastSave.called /\ lastSave.returned.saved /\ now' = now + 1
           /\ lastSave'.skillData = lastSave.skillData
           /\ lastSave'.features = lastSave.features) =>
          /\ ~lastSave'.returned.saved
          /\ lastSave'.returned.action = "skipped"
          /\ skillsJson' = skillsJson
          /\ collection' = collection]_vars

\* a save was skipped right after the call that wrote the same features,
\* given with unsorted tags, and the same content
C14_Witness ==
    /\ lastSave.called
    /\ lastSave.returned.action = "skipped"
    /\ lastSave.features.tags = <<TagB, TagA>>
    /\ skillsJson[lastSave.skillData.name]
           = SkillJsonData(lastSave.skillData.name, lastSave.features, now - 2)
    /\ collection[lastSave.skillData.name].skillMd = lastSave.skillData.content
    /\ lastSave.skillData.files \subseteq
           collection[lastSave.skillData.name].files

----
(***************************************************************************)
(* Part 3: the feature extractor's normalizeTags(tags, options).           *)
(*                                                                         *)
(* The tags argument is undefined, a string or an array of strings; the    *)
(* options are a record that has an owner, a maxTags, both or neither.     *)
(***************************************************************************)
\* const { owner, maxTags = 5 } = options
DefaultMaxTags == 5

TagsUndefined    == [type |-> "undefined"]
TagsString(cs)   == [type |-> "string", value |-> cs]
TagsArray(ts)    == [type |-> "array", value |-> ts]

\* t.trim()
trim(cs) == TrimEnd(TrimStart(cs))

\* tag.toLowerCase()
lower(tag) == [k \in 1..Len(tag) |-> toLowerCase(tag[k])]

\* tags.split(/[,;]/)
RECURSIVE split(_)
split(cs) ==
    LET seps == {k \in 1..Len(cs) : cs[k] \in {",", ";"}}
        k1   == CHOOSE k \in seps : \A m \in seps : k <= m
    IN  IF seps = {} THEN <<cs>>
        ELSE <<SubSeq(cs, 1, k1 - 1)>> \o split(SubSeq(cs, k1 + 1, Len(cs)))

\* .map(t => t.trim()).filter(Boolean)
TrimAll(ts) ==
    SelectSeq([k \in 1..Len(ts) |-> trim(ts[k])], LAMBDA t : t # <<>>)

\* the filter over `seen`: the first of the tags that are equal ignoring
\* case stays
RECURSIVE Dedupe(_, _)
Dedupe(ts, seen) ==
    IF ts = <<>> THEN <<>>
    ELSE IF lower(Head(ts)) \in seen THEN Dedupe(Tail(ts), seen)
    ELSE <<Head(ts)>> \o Dedupe(Tail(ts), seen \cup {lower(Head(ts))})

\* owner && owner.trim()
OwnerGiven(options) ==
    /\ "owner" \in DOMAIN options
    /\ options.owner # <<>>
    /\ trim(options.owner) # <<>>

\* variant: the owner goes to the front without the tags equal to it being
\* removed
normalizeTags_OwnerKept(tags, options) ==
    LET maxTags == IF "maxTags" \in DOMAIN options THEN options.maxTags
                   ELSE DefaultMaxTags
        split0  == IF tags.type = "string" THEN TrimAll(split(tags.value))
                   ELSE IF tags.type = "array" THEN TrimAll(tags.value)
                   ELSE <<>>
        unique  == Dedupe(split0, {})
        ownerTag == trim(options.owner)
        owned   == IF OwnerGiven(options) THEN <<ownerTag>> \o unique
                   ELSE unique
    IN  IF Len(owned) > maxTags THEN SubSeq(owned, 1, maxTags) ELSE owned

\* variant: the list is not cut to maxTags
normalizeTags_NoLimit(tags, options) ==
    LET split0  == IF tags.type = "string" THEN TrimAll(split(tags.value))
                   ELSE IF tags.type = "array" THEN TrimAll(tags.value)
                   ELSE <<>>
        unique  == Dedupe(split0, {})
        ownerTag == trim(options.owner)
    IN  IF OwnerGiven(options)
        THEN <<ownerTag>> \o
                 SelectSeq(unique, LAMBDA tag : lower(tag) # lower(ownerTag))
        ELSE unique

\* normalizeTags(tags, options): the array it returns
normalizeTags(tags, options) ==
    LET maxTags == IF "maxTags" \in DOMAIN options THEN options.maxTags
                   ELSE DefaultMaxTags
        split0  == IF tags.type = "string" THEN TrimAll(split(tags.value))
                   ELSE IF tags.type = "array" THEN TrimAll(tags.value)
                   ELSE <<>>
        unique  == Dedupe(split0, {})
        ownerTag == trim(options.owner)
        owned   == IF OwnerGiven(options)
                   THEN <<ownerTag>> \o
                            SelectSeq(unique,
                                      LAMBDA tag : lower(tag) # lower(ownerTag))
                   ELSE unique
    IN  IF Len(owned) > maxTags THEN SubSeq(owned, 1, maxTags) ELSE owned

(***************************************************************************)
(* normalizeTags as a function: a specification that draws the tags and    *)
(* the options, calls it, and calls it again on what it returned.          *)
(***************************************************************************)
\* the longest array of raw tags
MaxTagList == 3
\* the largest maxTags option passed
MaxTagsOption == 2
\* the number of times normalizeTags is applied in a run
MaxApply == 2

RawTags == {<<"a">>, <<"A">>, <<"b">>, <<"c">>, <<" ", "C">>, <<>>}

RECURSIVE SeqsUpTo(_, _)
SeqsUpTo(S, n) ==
    IF n = 0 THEN {<<>>}
    ELSE LET shorter == SeqsUpTo(S, n - 1)
         IN  shorter \cup {Append(ts, t) : ts \in shorter, t \in S}

TagInputs ==
    {TagsUndefined}
        \cup {TagsArray(ts) : ts \in SeqsUpTo(RawTags, MaxTagList)}
        \cup {TagsString(cs) :
                 cs \in {<<>>, <<"a", ",", "b">>, <<" ", "a", ";", "A", ",", "c">>,
                         <<"c", ",", ",", "b", " ">>}}

TagOwners == {<<>>, <<" ">>, <<"c">>, <<"C">>, <<" ", "c">>}

TagOptions ==
    {<<>>} \cup {[owner |-> o] : o \in TagOwners}
           \cup {[maxTags |-> m] : m \in 0..MaxTagsOption}
           \cup {[owner |-> o, maxTags |-> m] :
                    o \in TagOwners, m \in 0..MaxTagsOption}

InitTags ==
    /\ ResolverIdle
    /\ SyncIdle
    /\ StoreIdle
    /\ retry = NoRetry
    /\ fetcher = NoFetch
    /\ \E tags \in TagInputs, options \in TagOptions :
          tagsCall = [applied |-> 0, input |-> tags, options |-> options,
                      value |-> tags]

\* a call normalizeTags(value, options) on the current value
normalizeTagsCall ==
    /\ tagsCall.applied < MaxApply
    /\ tagsCall' = [tagsCall EXCEPT
                       !.applied = @ + 1,
                       !.value = TagsArray(normalizeTags(tagsCall.value,
                                                         tagsCall.options))]
    /\ UNCHANGED <<resolverVars, conflictCall, syncVars, storeVars, retry, fetcher>>

NextTags == normalizeTagsCall

SpecTags == InitTags /\ [][NextTags]_vars

(***************************************************************************)
(* Properties of normalizeTags.                                            *)
(***************************************************************************)
\* normalizeTags has been applied: what it returned, the trimmed non-empty
\* tags it was given, and the options of the call
TagsApplied  == tagsCall.applied >= 1
TagsReturned == tagsCall.value.value
TagsGiven ==
    IF tagsCall.input.type = "string" THEN TrimAll(split(tagsCall.input.value))
    ELSE IF tagsCall.input.type = "array" THEN TrimAll(tagsCall.input.value)
    ELSE <<>>
TagsLimit ==
    IF "maxTags" \in DOMAIN tagsCall.options THEN tagsCall.options.maxTags
    ELSE DefaultMaxTags

\* a is b with some elements left out
RECURSIVE IsSubsequence(_, _)
IsSubsequence(a, b) ==
    IF a = <<>> THEN TRUE
    ELSE IF b = <<>> THEN FALSE
    ELSE IF Head(a) = Head(b) THEN IsSubsequence(Tail(a), Tail(b))
    ELSE IsSubsequence(a, Tail(b))

\* the owner option is a string whose trimmed value is not empty
TrimmedOwnerNonEmpty ==
    /\ "owner" \in DOMAIN tagsCall.options
    /\ trim(tagsCall.options.owner) # <<>>

\* the shape of the result: the owner in front and nowhere else, the other
\* tags in the order they were given
OwnerMovedToFront ==
    LET others == IF TrimmedOwnerNonEmpty /\ TagsReturned # <<>>
                  THEN Tail(TagsReturned) ELSE TagsReturned
    IN  /\ IsSubsequence(others, TagsGiven)
        /\ (TrimmedOwnerNonEmpty /\ TagsLimit >= 1) =>
              /\ TagsReturned # <<>>
              /\ TagsReturned[1] = trim(tagsCall.options.owner)
              /\ \A k \in 2..Len(TagsReturned) :
                    lower(TagsReturned[k]) # lower(TagsReturned[1])
              /\ \A k \in 1..Len(TagsGiven) :
                    (Len(TagsReturned) < TagsLimit
                        /\ lower(TagsGiven[k]) # lower(TagsReturned[1])) =>
                       \E m \in 2..Len(TagsReturned) :
                           lower(TagsReturned[m]) = lower(TagsGiven[k])

\* C15: with the owner and maxTags fixed, normalizeTags applied to its own
\* result returns it unchanged; a tag equal to the owner is removed from its
\* position and the owner is at the front, the other tags keeping their
\* relative order.
C15_NormalizeIdempotent ==
    [][/\ TagsApplied => tagsCall'.value = tagsCall.value
       /\ tagsCall'.applied >= 1 => OwnerMovedToFront']_vars

\* the owner was given with a blank and in another case than the tag equal
\* to it, which stood second; normalizeTags was applied twice
C15_Witness ==
    /\ tagsCall.applied = 2
    /\ tagsCall.input = TagsArray(<<<<"a">>, <<" ", "C">>, <<"b">>>>)
    /\ tagsCall.options = [owner |-> <<" ", "c">>]
    /\ TagsReturned = <<<<"c">>, <<"a">>, <<"b">>>>

\* the result has no two tags equal ignoring case and at most maxTags tags
DistinctAndLimited ==
    /\ \A k, m \in 1..Len(TagsReturned) :
          lower(TagsReturned[k]) = lower(TagsReturned[m]) => k = m
    /\ Len(TagsReturned) <= TagsLimit

\* C16 as stated: the result has no two tags equal ignoring case, at most
\* maxTags elements, and, when the owner is non-empty and maxTags >= 1, the
\* trimmed owner as its first element.
C16_OwnerNonEmptyFirst ==
    TagsApplied =>
        /\ DistinctAndLimited
        /\ ("owner" \in DOMAIN tagsCall.options
               /\ tagsCall.options.owner # <<>> /\ TagsLimit >= 1) =>
              /\ TagsReturned # <<>>
              /\ TagsReturned[1] = trim(tagsCall.options.owner)

\* C16: the result has no two tags equal ignoring case, at most maxTags
\* elements, and, when the trimmed owner is non-empty and maxTags >= 1, the
\* trimmed owner as its first element.
C16_TrimmedOwnerFirst ==
    TagsApplied =>
        /\ DistinctAndLimited
        /\ (TrimmedOwnerNonEmpty /\ TagsLimit >= 1) =>
              /\ TagsReturned # <<>>
              /\ TagsReturned[1] = trim(tagsCall.options.owner)

\* two tags equal ignoring case and a third were given with an owner and
\* maxTags 2: the owner and the first tag are returned
C16_Witness ==
    /\ tagsCall.applied = 1
    /\ tagsCall.input = TagsArray(<<<<"a">>, <<"A">>, <<"b">>>>)
    /\ tagsCall.options = [owner |-> <<"c">>, maxTags |-> 2]
    /\ TagsReturned = <<<<"c">>, <<"a">>>>

----
(***************************************************************************)
(* Part 4: the retry wrapper (utils.js, fetchWithRetry).                   *)
(*                                                                         *)
(* What the server and the network do is the environment's choice: each    *)
(* fetch() ends in a response (a status and, maybe, a Retry-After header)  *)
(* or in a rejection with a network error.                                 *)
(***************************************************************************)
\* the retry budgets and delays of the call sites: primary document and
\* directory listings, individual files
PrimaryRetries == 3
PrimaryDelay   == 1000
FileRetries    == 2
FileDelay      == 500

Response(status, retryAfter) ==
    [kind |-> "response", status |-> status, retryAfter |-> retryAfter]
NetworkError(error) == [kind |-> "error", error |-> error]

\* the outcomes of one fetch()
FetchOutcomes ==
    {Response(st, Null) : st \in {200, 404, 403, 429}}
        \cup {Response(st, ra) : st \in {403, 429}, ra \in {"2", "0"}}
        \cup {NetworkError(e) : e \in {"ECONNRESET", "ETIMEDOUT"}}

\* new Error('GitHub API 速率限制，请配置 GITHUB_TOKEN ...')
RateLimitError == "rate limit: configure GITHUB_TOKEN"

\* parseInt(retryAfter)
parseInt(h) == CASE h = "2" -> 2 [] h = "0" -> 0

\* Math.pow(2, i)
RECURSIVE pow2(_)
pow2(n) == IF n = 0 THEN 1 ELSE 2 * pow2(n - 1)

\* variant: a rate-limited attempt waits the fixed delay, as a failed one
fetchWithRetryStep_FixedBackoff(r, outcome) ==
    LET sent == [r EXCEPT !.attempts = Append(@, outcome)]
    IN  IF outcome.kind = "response"
        THEN IF outcome.status = 403 \/ outcome.status = 429
             THEN [sent EXCEPT !.waits = Append(@, r.delay), !.i = @ + 1]
             ELSE [sent EXCEPT !.pc = "returned", !.result = outcome]
        ELSE [sent EXCEPT
                 !.lastError = outcome.error,
                 !.waits = IF r.i < r.retries - 1 THEN Append(@, r.delay)
                           ELSE @,
                 !.i = @ + 1]

\* variant: every response that is not OK is retried
fetchWithRetryStep_RetryNotOk(r, outcome) ==
    LET sent == [r EXCEPT !.attempts = Append(@, outcome)]
    IN  IF outcome.kind = "response"
        THEN IF outcome.status # 200
             THEN [sent EXCEPT
                      !.waits = Append(@, IF ~Falsy(outcome.retryAfter)
                                          THEN parseInt(outcome.retryAfter) * 1000
                                          ELSE r.delay * pow2(r.i)),
                      !.i = @ + 1]
             ELSE [sent EXCEPT !.pc = "returned", !.result = outcome]
        ELSE [sent EXCEPT
                 !.lastError = outcome.error,
                 !.waits = IF r.i < r.retries - 1 THEN Append(@, r.delay)
                           ELSE @,
                 !.i = @ + 1]

\* one iteration of the loop, with the outcome of its fetch()
fetchWithRetryStep(r, outcome) ==
    LET sent == [r EXCEPT !.attempts = Append(@, outcome)]
    IN  IF outcome.kind = "response"
        THEN IF outcome.status = 403 \/ outcome.status = 429
             THEN [sent EXCEPT
                      !.waits = Append(@, IF ~Falsy(outcome.retryAfter)
                                          THEN parseInt(outcome.retryAfter) * 1000
                                          ELSE r.delay * pow2(r.i)),
                      !.i = @ + 1]
             ELSE [sent EXCEPT !.pc = "returned", !.result = outcome]
        ELSE [sent EXCEPT
                 !.lastError = outcome.error,
                 !.waits = IF r.i < r.retries - 1 THEN Append(@, r.delay)
                           ELSE @,
                 !.i = @ + 1]

\* variant: the rate-limit error is thrown whatever lastError is
fetchWithRetryExit_AlwaysRateLimit(r) ==
    [r EXCEPT !.pc = "thrown", !.thrown = RateLimitError]

\* after the loop: the rate-limit error when no fetch() was rejected,
\* otherwise the last rejection
fetchWithRetryExit(r) ==
    [r EXCEPT !.pc = "thrown",
              !.thrown = IF Falsy(r.lastError) THEN RateLimitError
                         ELSE r.lastError]

\* fetchWithRetry(url, options, retries, delay) is called
fetchWithRetryCall(retries, delay) ==
    /\ retry.pc = "idle"
    /\ retry' = [pc |-> "loop", retries |-> retries, delay |-> delay, i |-> 0,
                 lastError |-> Undefined, attempts |-> <<>>, waits |-> <<>>,
                 result |-> NoSkill, thrown |-> Undefined]
    /\ UNCHANGED <<resolverVars, conflictCall, syncVars, storeVars, tagsCall, fetcher>>

\* an iteration of the loop
fetchWithRetryAttempt(outcome) ==
    /\ retry.pc = "loop"
    /\ retry.i < retry.retries
    /\ retry' = fetchWithRetryStep(retry, outcome)
    /\ UNCHANGED <<resolverVars, conflictCall, syncVars, storeVars, tagsCall, fetcher>>

\* the loop is over
fetchWithRetryThrow ==
    /\ retry.pc = "loop"
    /\ retry.i >= retry.retries
    /\ retry' = fetchWithRetryExit(retry)
    /\ UNCHANGED <<resolverVars, conflictCall, syncVars, storeVars, tagsCall, fetcher>>

InitRetry ==
    /\ ResolverIdle
    /\ SyncIdle
    /\ StoreIdle
    /\ tagsCall = NoTagsCall
    /\ retry = NoRetry
    /\ fetcher = NoFetch

NextRetry ==
    \/ fetchWithRetryCall(PrimaryRetries, PrimaryDelay)
    \/ fetchWithRetryCall(FileRetries, FileDelay)
    \/ \E outcome \in FetchOutcomes : fetchWithRetryAttempt(outcome)
    \/ fetchWithRetryThrow

SpecRetry == InitRetry /\ [][NextRetry]_vars

(***************************************************************************)
(* Properties of the retry wrapper.                                        *)
(***************************************************************************)
\* the attempt ended in a 403 or 429 response
RateLimited(a) == a.kind = "response" /\ a.status \in {403, 429}
\* the attempt ended in a response with any other status
Terminal(a) == a.kind = "response" /\ a.status \notin {403, 429}

\* C17: fetchWithRetry issues at most `retries` requests (3 or 2), then
\* returns a response or throws; it returns the first response whose
\* status is neither 403 nor 429, without a further request.
C17_AtMostRetriesRequests ==
    retry.pc # "idle" =>
        /\ retry.retries \in {PrimaryRetries, FileRetries}
        /\ Len(retry.attempts) <= retry.retries
        /\ Len(retry.attempts) = retry.retries =>
              \/ retry.pc \in {"returned", "thrown"}
              \/ retry.pc = "loop" /\ retry.i >= retry.retries
        /\ retry.pc = "thrown" => Len(retry.attempts) = retry.retries
        /\ \A k \in 1..Len(retry.attempts) :
              Terminal(retry.attempts[k]) =>
                  /\ k = Len(retry.attempts)
                  /\ retry.pc = "returned"
                  /\ retry.result = retry.attempts[k]
        /\ retry.pc = "returned" =>
              /\ retry.attempts # <<>>
              /\ Terminal(retry.attempts[Len(retry.attempts)])

\* the third request of a primary fetch was answered 404 after a 403 and a
\* network failure, and the 404 response was returned
C17_Witness ==
    /\ retry.pc = "returned"
    /\ retry.retries = PrimaryRetries
    /\ retry.attempts = <<Response(403, Null), NetworkError("ECONNRESET"),
                          Response(404, Null)>>
    /\ retry.result = Response(404, Null)

\* C18 as stated: when every attempt was a 403/429 response or a network
\* failure, in any mix, the call throws the rate-limit error that advises
\* configuring GITHUB_TOKEN.
C18_AnyMixRateLimitError ==
    (retry.pc = "thrown"
        /\ \A k \in 1..Len(retry.attempts) :
              RateLimited(retry.attempts[k])
                  \/ retry.attempts[k].kind = "error") =>
        retry.thrown = RateLimitError

\* C18: when every attempt was a 403/429 response, the call throws the
\* rate-limit error that advises configuring GITHUB_TOKEN; when some attempt
\* was a network failure, it throws the error of the last such attempt.
C18_RateLimitOrLastError ==
    retry.pc = "thrown" =>
        LET failed == {k \in 1..Len(retry.attempts) :
                          retry.attempts[k].kind = "error"}
            last   == CHOOSE k \in failed : \A m \in failed : m <= k
        IN  /\ \A k \in 1..Len(retry.attempts) :
                  RateLimited(retry.attempts[k])
                      \/ retry.attempts[k].kind = "error"
            /\ IF failed = {} THEN retry.thrown = RateLimitError
               ELSE retry.thrown = retry.attempts[last].error

\* a file fetch threw after a network failure followed by a 429
C18_Witness ==
    /\ retry.pc = "thrown"
    /\ retry.attempts = <<NetworkError("ETIMEDOUT"), Response(429, "2")>>
    /\ retry.thrown = "ETIMEDOUT"

\* the wait that followed attempt k (attempts are numbered from 1, the
\* loop index of attempt k is k - 1)
WaitAfter(k) == IF k <= Len(retry.waits) THEN <<retry.waits[k]>> ELSE <<>>

\* C34: the attempt with zero-based index i that receives a 403 or 429 is
\* followed by a wait of Retry-After * 1000 ms when the response carries a
\* Retry-After header, of delay * 2^i ms otherwise; an attempt that fails
\* at the network level and is not the last one is followed by a wait of
\* the fixed delay.
C34_WaitTimes ==
    retry.pc # "idle" =>
        \A k \in 1..Len(retry.attempts) :
            LET a == retry.attempts[k]
            IN  /\ (RateLimited(a) /\ a.retryAfter = "2") =>
                      WaitAfter(k) = <<2000>>
                /\ (RateLimited(a) /\ a.retryAfter = "0") =>
                      WaitAfter(k) = <<0>>
                /\ (RateLimited(a) /\ a.retryAfter = Null) =>
                      WaitAfter(k) = <<retry.delay * pow2(k - 1)>>
                /\ (a.kind = "error" /\ k < retry.retries) =>
                      WaitAfter(k) = <<retry.delay>>

\* a primary fetch waited 1000 ms after a 403 without the header, 1000 ms
\* after a network failure and 4000 ms after a 429 without the header
C34_Witness ==
    /\ retry.pc # "idle"
    /\ retry.retries = PrimaryRetries
    /\ retry.attempts = <<Response(403, Null), NetworkError("ECONNRESET"),
                          Response(429, Null)>>
    /\ retry.waits = <<1000, 1000, 4000>>

\* C39: fetchWithRetry sleeps only between two attempts: the final attempt
\* (index retries - 1) is followed by no wait, whether it ended in a
\* 403/429 response or in a network failure.
C39_NoWaitAfterFinalAttempt ==
    retry.pc # "idle" => WaitAfter(retry.retries) = <<>>

----
(***************************************************************************)
(* Part 5: the remote content fetcher (utils.js, fetchGithubContent and    *)
(* fetchDirectoryContents).                                                *)
(*                                                                         *)
(* A path is a sequence of tokens, "skills/docs" being                     *)
(* <<"skills", "/", "docs">>.  The repository is a tree of files,          *)
(* directories and symlinks.  Each request ends as the environment chooses:*)
(* "ok" (an OK response), "notok" (a response that is not OK) or "throw"   *)
(* (fetchWithRetry gave up, or fetch() was rejected).                      *)
(***************************************************************************)
PathDocs   == <<"skills", "/", "docs">>
PathRef    == <<"skills", "/", "docs", "/", "ref">>
PathShared == <<"skills", "/", "shared">>

\* an entry of a directory listing; target is the text of a symlink
Item(type, name, dir, target) ==
    [type |-> type, name |-> name, path |-> dir \o <<"/", name>>,
     target |-> target]

\* response.json() of the contents API: the entries of a directory, and an
\* object, not an array, for any other path
NotArray == <<[type |-> "object"]>>
DirItems(dirPath) ==
    CASE dirPath = PathDocs ->
             <<Item("file", "SKILL.md", PathDocs, <<>>),
               Item("file", "a.md", PathDocs, <<>>),
               Item("file", "b.md", PathDocs, <<>>),
               Item("dir", "ref", PathDocs, <<>>),
               Item("symlink", "link", PathDocs, <<"..", "/", "shared", " ">>)>>
      [] dirPath = PathRef ->
             <<Item("file", "c.md", PathRef, <<>>),
               Item("symlink", "alias", PathRef, <<".", "/", "c.md">>)>>
      [] dirPath = PathShared ->
             <<Item("file", "e.md", PathShared, <<>>)>>
      [] OTHER -> NotArray

\* response.text() of a raw file
RawContent(path) == "content of " \o Join(path)

\* the URLs: raw.githubusercontent.com/<owner>/<repo>/<branch>/<path> and
\* api.github.com/repos/<owner>/<repo>/contents/<path>?ref=<branch>
RawUrl(branch, path) == [host |-> "raw", branch |-> branch, path |-> path]
ApiUrl(branch, path) == [host |-> "api", branch |-> branch, path |-> path]

RequestOutcomes == {"ok", "notok", "throw"}

\* a request, as the log keeps it: how it was issued, what it was for, how
\* it ended, the path its content is stored under, and the content read
\* from an OK response to a download
Request(url, via, purpose, outcome, key) ==
    [url |-> url, via |-> via, purpose |-> purpose, outcome |-> outcome,
     key |-> key,
     body |-> IF outcome = "ok" /\ purpose \in {"file", "target"}
              THEN RawContent(url.path) ELSE ""]

\* path.lastIndexOf('/'), counted from 1; 0 when there is no slash
LastSlash(path) ==
    LET slashes == {k \in 1..Len(path) : path[k] = "/"}
    IN  IF slashes = {} THEN 0
        ELSE CHOOSE k \in slashes : \A m \in slashes : m <= k

\* parts.join('/')
RECURSIVE JoinSlash(_)
JoinSlash(parts) ==
    IF parts = <<>> THEN <<>>
    ELSE IF Len(parts) = 1 THEN parts[1]
    ELSE parts[1] \o <<"/">> \o JoinSlash(Tail(parts))

\* the loop over targetParts: '..' pops, '.' and '' are skipped
RECURSIVE WalkParts(_, _)
WalkParts(parts, targetParts) ==
    IF targetParts = <<>> THEN parts
    ELSE LET part == Head(targetParts)
         IN  IF part = <<"..">>
             THEN WalkParts(IF parts = <<>> THEN parts
                            ELSE SubSeq(parts, 1, Len(parts) - 1),
                            Tail(targetParts))
             ELSE IF part # <<".">> /\ part # <<>>
             THEN WalkParts(Append(parts, part), Tail(targetParts))
             ELSE WalkParts(parts, Tail(targetParts))

\* variant: a '../' target is appended to the current directory as it is
resolvedPath_NoCollapse(itemPath, targetPath) ==
    LET last == LastSlash(itemPath)
        currentDir == IF last = 0 THEN <<>> ELSE SubSeq(itemPath, 1, last - 1)
    IN  IF targetPath # <<>> /\ Head(targetPath) = "/" THEN Tail(targetPath)
        ELSE IF Len(targetPath) >= 2 /\ targetPath[1] = "."
                    /\ targetPath[2] = "/"
        THEN currentDir \o <<"/">> \o SubSeq(targetPath, 3, Len(targetPath))
        ELSE currentDir \o <<"/">> \o targetPath

\* the resolvedPath of a symlink at itemPath whose trimmed text is
\* targetPath, as the callback of items.map computes it
resolvedPath(itemPath, targetPath) ==
    LET last == LastSlash(itemPath)
        currentDir == IF last = 0 THEN <<>> ELSE SubSeq(itemPath, 1, last - 1)
    IN  IF targetPath # <<>> /\ Head(targetPath) = "/" THEN Tail(targetPath)
        ELSE IF Len(targetPath) >= 2 /\ targetPath[1] = "."
                    /\ targetPath[2] = "/"
        THEN currentDir \o <<"/">> \o SubSeq(targetPath, 3, Len(targetPath))
        ELSE IF Len(targetPath) >= 2 /\ targetPath[1] = ".."
                    /\ targetPath[2] = "/"
        THEN JoinSlash(WalkParts(SplitSlash(currentDir), SplitSlash(targetPath)))
        ELSE currentDir \o <<"/">> \o targetPath

\* the same, as the loop of fetchDirectoryContents computes it
resolvedPathInDirectory(itemPath, targetPath) ==
    LET last == LastSlash(itemPath)
        currentDir == IF last = 0 THEN <<>> ELSE SubSeq(itemPath, 1, last - 1)
        parts == SplitSlash(currentDir)
        targetParts == SplitSlash(targetPath)
    IN  IF targetPath # <<>> /\ Head(targetPath) = "/"
        THEN SubSeq(targetPath, 2, Len(targetPath))
        ELSE IF Len(targetPath) >= 2 /\ SubSeq(targetPath, 1, 2) = <<".", "/">>
        THEN currentDir \o <<"/">> \o SubSeq(targetPath, 3, Len(targetPath))
        ELSE IF Len(targetPath) >= 2 /\ SubSeq(targetPath, 1, 2) = <<"..", "/">>
        THEN JoinSlash(WalkParts(parts, targetParts))
        ELSE currentDir \o <<"/">> \o targetPath

\* what a task hands back: the files it collected, the requests it made,
\* the fetchErrors it pushed, and whether it was rejected
Collected(files, requests, errors, rejected) ==
    [files |-> files, requests |-> requests, errors |-> errors,
     rejected |-> rejected]

RECURSIVE fetchDirectoryContents(_, _, _, _)
RECURSIVE DirectoryLoop(_, _, _, _)

\* the body of fetchDirectoryContents' loop for the items, in order
DirectoryLoop(items, branch, basePath, out) ==
    IF items = <<>> THEN Collected(<<>>, {}, {}, FALSE)
    ELSE
    LET item == Head(items)
        rest == DirectoryLoop(Tail(items), branch, basePath, out)
        key  == basePath \o "/" \o item.name
        raw  == RawUrl(branch, item.path)
        this ==
            IF item.type = "file"
            THEN Collected(IF out[raw] = "ok"
                           THEN <<[path |-> key, content |-> RawContent(item.path)]>>
                           ELSE <<>>,
                           {Request(raw, "fetchWithRetry", "file", out[raw], key)},
                           {}, FALSE)
            ELSE IF item.type = "dir"
            THEN fetchDirectoryContents(item.path, branch, key, out)
            ELSE IF item.type = "symlink"
            THEN
                LET linkRequest == Request(raw, "fetchWithRetry", "link",
                                           out[raw], key)
                    resolvedTo  == resolvedPathInDirectory(item.path,
                                                           trim(item.target))
                    subFiles  == fetchDirectoryContents(resolvedTo, branch, key, out)
                    targetUrl == RawUrl(branch, resolvedTo)
                    targetRequest == Request(targetUrl, "fetchWithRetry",
                                             "target", out[targetUrl], key)
                IN  IF out[raw] # "ok"
                    THEN Collected(<<>>, {linkRequest}, {}, FALSE)
                    ELSE IF subFiles.files # <<>>
                    THEN Collected(subFiles.files,
                                   {linkRequest} \cup subFiles.requests, {}, FALSE)
                    ELSE Collected(IF out[targetUrl] = "ok"
                                   THEN <<[path |-> key,
                                           content |-> RawContent(resolvedTo)]>>
                                   ELSE <<>>,
                                   {linkRequest, targetRequest}
                                       \cup subFiles.requests, {}, FALSE)
            ELSE Collected(<<>>, {}, {}, FALSE)
    IN  Collected(this.files \o rest.files, this.requests \cup rest.requests,
                  {}, FALSE)

\* fetchDirectoryContents(owner, repo, dirPath, branch, basePath): the
\* files of the directory and of what is below it; every failure is
\* swallowed
fetchDirectoryContents(dirPath, branch, basePath, out) ==
    LET apiUrl  == ApiUrl(branch, dirPath)
        listing == Request(apiUrl, "fetchWithRetry", "listing", out[apiUrl],
                           basePath)
        items   == DirItems(dirPath)
        below   == DirectoryLoop(items, branch, basePath, out)
    IN  IF out[apiUrl] = "ok" /\ items # NotArray
        THEN Collected(below.files, {listing} \cup below.requests, {}, FALSE)
        ELSE Collected(<<>>, {listing}, {}, FALSE)

\* variant: a file download that throws rejects the item's promise
fileTask_NoCatch(item, branch, out) ==
    LET raw == RawUrl(branch, item.path)
    IN  IF item.name = "SKILL.md" \/ item.name = "skill.md"
        THEN Collected(<<>>, {}, {}, FALSE)
        ELSE Collected(IF out[raw] = "ok"
                       THEN <<[path |-> item.name,
                               content |-> RawContent(item.path)]>>
                       ELSE <<>>,
                       {Request(raw, "fetchWithRetry", "file", out[raw],
                                item.name)},
                       {}, out[raw] = "throw")

\* the callback of items.map for an item of type 'file'
fileTask(item, branch, out) ==
    LET raw == RawUrl(branch, item.path)
    IN  IF item.name = "SKILL.md" \/ item.name = "skill.md"
        THEN Collected(<<>>, {}, {}, FALSE)
        ELSE Collected(IF out[raw] = "ok"
                       THEN <<[path |-> item.name,
                               content |-> RawContent(item.path)]>>
                       ELSE <<>>,
                       {Request(raw, "fetchWithRetry", "file", out[raw],
                                item.name)},
                       IF out[raw] = "throw"
                       THEN {[type |-> "file", path |-> item.name]} ELSE {},
                       FALSE)

\* the callback of items.map for an item of type 'symlink': the link and
\* its target are read with fetch()
symlinkTask(item, branch, out) ==
    LET raw == RawUrl(branch, item.path)
        linkRequest == Request(raw, "fetch", "link", out[raw], item.name)
        resolvedTo  == resolvedPath(item.path, trim(item.target))
        subFiles  == fetchDirectoryContents(resolvedTo, branch, item.name, out)
        targetUrl == RawUrl(branch, resolvedTo)
        targetRequest == Request(targetUrl, "fetch", "target", out[targetUrl],
                                 item.name)
    IN  IF out[raw] # "ok"
        THEN Collected(<<>>, {linkRequest}, {}, FALSE)
        ELSE IF subFiles.files # <<>>
        THEN Collected(subFiles.files, {linkRequest} \cup subFiles.requests,
                       {}, FALSE)
        ELSE Collected(IF out[targetUrl] = "ok"
                       THEN <<[path |-> item.name,
                               content |-> RawContent(resolvedTo)]>>
                       ELSE <<>>,
                       {linkRequest, targetRequest} \cup subFiles.requests,
                       {}, FALSE)

\* the callback of items.map
itemTask(item, branch, out) ==
    IF item.type = "file" THEN fileTask(item, branch, out)
    ELSE IF item.type = "dir"
    THEN fetchDirectoryContents(item.path, branch, item.name, out)
    ELSE IF item.type = "symlink" THEN symlinkTask(item, branch, out)
    ELSE Collected(<<>>, {}, {}, FALSE)

\* the URLs a task for the item may request
RECURSIVE UrlsBelow(_, _)
UrlsBelow(item, branch) ==
    LET resolvedTo == resolvedPath(item.path, trim(item.target))
        under(dirPath) ==
            {ApiUrl(branch, dirPath)}
                \cup IF DirItems(dirPath) = NotArray THEN {}
                     ELSE UNION {UrlsBelow(DirItems(dirPath)[k], branch) :
                                    k \in 1..Len(DirItems(dirPath))}
    IN  IF item.type = "file" THEN {RawUrl(branch, item.path)}
        ELSE IF item.type = "dir" THEN under(item.path)
        ELSE {RawUrl(branch, item.path), RawUrl(branch, resolvedTo)}
                 \cup under(resolvedTo)

\* files.set(file.path, file.content) for the files, in order
RECURSIVE SetAll(_, _)
SetAll(files, fs) ==
    IF fs = <<>> THEN files
    ELSE SetAll({f \in files : f.path # Head(fs).path} \cup {Head(fs)}, Tail(fs))

\* the results of the tasks, in the order of the items
RECURSIVE ResultFiles(_)
ResultFiles(results) ==
    IF results = <<>> THEN <<>>
    ELSE Head(results).files \o ResultFiles(Tail(results))

(***************************************************************************)
(* fetchGithubContent as a state machine: the search for SKILL.md over the *)
(* branches, the listing of its directory, one task per entry (the tasks   *)
(* run concurrently and finish in any order), and the return.              *)
(***************************************************************************)
\* the result of parseGithubUrl: the branch and the path of the skill
RepoInfos ==
    {[branch |-> Undefined, path |-> PathDocs],
     [branch |-> "dev", path |-> <<>>],
     [branch |-> "master", path |-> <<>>]}

\* the outcomes of the request for SKILL.md: an OK response with a body,
\* a response that is not OK, fetchWithRetry throwing
PrimaryOutcomes ==
    {[outcome |-> "ok", body |-> "# docs"], [outcome |-> "ok", body |-> ""],
     [outcome |-> "notok", body |-> ""], [outcome |-> "throw", body |-> ""]}

Pending == [pending |-> TRUE]

\* fetchGithubContent(features) is called
fetchGithubContentCall(repoInfo) ==
    /\ fetcher.pc = "idle"
    /\ fetcher' =
          [pc |-> "primary", repoInfo |-> repoInfo,
           branches |-> IF ~Falsy(repoInfo.branch)
                              /\ repoInfo.branch # "main"
                              /\ repoInfo.branch # "master"
                        THEN <<repoInfo.branch, "main", "master">>
                        ELSE <<"main", "master">>,
           b |-> 1, skillMd |-> Null, foundBranch |-> "main",
           foundPath |-> <<>>, items |-> <<>>, results |-> <<>>,
           fetchErrors |-> {}, requests |-> {}, returned |-> FALSE,
           result |-> NoSkill]
    /\ UNCHANGED <<resolverVars, conflictCall, syncVars, storeVars, tagsCall, retry>>

\* one iteration of the loop over the branches: SKILL.md is requested on
\* branch b; with a non-empty body the loop ends, and so it does after the
\* last branch, where the function returns null
fetchSkillMd(reply) ==
    /\ fetcher.pc = "primary"
    /\ LET branch == fetcher.branches[fetcher.b]
           path == fetcher.repoInfo.path
           p  == IF path # <<>> THEN path \o <<"/", "SKILL.md">>
                 ELSE <<"SKILL.md">>
           asked == [fetcher EXCEPT
                        !.requests = @ \cup
                            {[Request(RawUrl(branch, p), "fetchWithRetry",
                                      "primary", reply.outcome, "SKILL.md")
                                 EXCEPT !.body = reply.body]}]
           found == [asked EXCEPT !.foundBranch = branch, !.foundPath = path,
                                  !.skillMd = reply.body]
           after == IF reply.outcome = "ok" THEN found ELSE asked
       IN  fetcher' =
               IF ~Falsy(after.skillMd)
               THEN IF after.foundPath # <<>>
                    THEN [after EXCEPT !.pc = "list"]
                    ELSE [after EXCEPT !.pc = "returned", !.returned = TRUE,
                                       !.result = [skillMd |-> after.skillMd,
                                                   files |-> {}]]
               ELSE IF fetcher.b < Len(fetcher.branches)
               THEN [after EXCEPT !.b = @ + 1]
               ELSE [after EXCEPT !.pc = "returned", !.returned = TRUE,
                                  !.result = NoSkill]
    /\ UNCHANGED <<resolverVars, conflictCall, syncVars, storeVars, tagsCall, retry>>

\* the directory of SKILL.md is listed; without a listing the function
\* returns the document alone
listSkillDir(outcome) ==
    /\ fetcher.pc = "list"
    /\ LET apiUrl == ApiUrl(fetcher.foundBranch, fetcher.foundPath)
           items  == DirItems(fetcher.foundPath)
           asked  == [fetcher EXCEPT
                         !.requests = @ \cup
                             {Request(apiUrl, "fetchWithRetry", "listing",
                                      outcome, "")}]
       IN  fetcher' =
               IF outcome = "ok" /\ items # NotArray
               THEN [asked EXCEPT !.pc = "fanout", !.items = items,
                                  !.results = [k \in 1..Len(items) |-> Pending]]
               ELSE [asked EXCEPT !.pc = "returned", !.returned = TRUE,
                                  !.result = [skillMd |-> fetcher.skillMd,
                                              files |-> {}]]
    /\ UNCHANGED <<resolverVars, conflictCall, syncVars, storeVars, tagsCall, retry>>

\* the task of entry k runs to its end, the requests it makes ending as
\* the environment chooses (`out`)
runItemTask(k) ==
    /\ fetcher.pc = "fanout"
    /\ fetcher.results[k] = Pending
    /\ \E out \in [UrlsBelow(fetcher.items[k], fetcher.foundBranch)
                      -> RequestOutcomes] :
          LET done == itemTask(fetcher.items[k], fetcher.foundBranch, out)
          IN  fetcher' = [fetcher EXCEPT
                             !.results[k] = [files |-> done.files,
                                             rejected |-> done.rejected],
                             !.requests = @ \cup done.requests,
                             !.fetchErrors = @ \cup done.errors]
    /\ UNCHANGED <<resolverVars, conflictCall, syncVars, storeVars, tagsCall, retry>>

\* await Promise.all(filePromises): the results fill the map; a rejected
\* task makes Promise.all reject, which the catch around the listing logs
returnContent ==
    /\ fetcher.pc = "fanout"
    /\ \A k \in 1..Len(fetcher.results) : fetcher.results[k] # Pending
    /\ LET rejected == \E k \in 1..Len(fetcher.results) :
                           fetcher.results[k].rejected
           files == IF rejected THEN {}
                    ELSE SetAll({}, ResultFiles(fetcher.results))
       IN  fetcher' = [fetcher EXCEPT
                          !.pc = "returned", !.returned = TRUE,
                          !.result = [skillMd |-> fetcher.skillMd,
                                      files |-> files]]
    /\ UNCHANGED <<resolverVars, conflictCall, syncVars, storeVars, tagsCall, retry>>

InitFetch ==
    /\ ResolverIdle
    /\ SyncIdle
    /\ StoreIdle
    /\ tagsCall = NoTagsCall
    /\ retry = NoRetry
    /\ fetcher = NoFetch

NextFetch ==
    \/ \E repoInfo \in RepoInfos : fetchGithubContentCall(repoInfo)
    \/ \E reply \in PrimaryOutcomes : fetchSkillMd(reply)
    \/ \E outcome \in RequestOutcomes : listSkillDir(outcome)
    \/ \E k \in DOMAIN DirItems(PathDocs) : runItemTask(k)
    \/ returnContent

SpecFetch == InitFetch /\ [][NextFetch]_vars

(***************************************************************************)
(* Properties of the remote content fetcher.                               *)
(***************************************************************************)
\* C19: every request of the fetcher (SKILL.md, directory listings, file
\* downloads, reads of a symlink's text and of its target, in the skill's
\* directory and below it) is issued through fetchWithRetry.
C19_AllThroughRetryWrapper ==
    fetcher.pc # "idle" =>
        \A r \in fetcher.requests : r.via = "fetchWithRetry"

\* the requests for SKILL.md that were answered OK with a document
PrimaryFound ==
    {r \in fetcher.requests :
        r.purpose = "primary" /\ r.outcome = "ok" /\ r.body # ""}

\* the downloads of files and symlink targets that were answered OK
Downloaded ==
    {r \in fetcher.requests :
        r.purpose \in {"file", "target"} /\ r.outcome = "ok"}

\* C20: when SKILL.md was found, whichever downloads of files and
\* subdirectories of its directory failed, fetchGithubContent returns a
\* result that is not null, whose files are exactly the entries downloaded
\* successfully and whose skillMd is the document as it was received.
C20_FailureIsolation ==
    (fetcher.pc = "returned" /\ PrimaryFound # {}) =>
        /\ fetcher.result # NoSkill
        /\ \E r \in PrimaryFound : fetcher.result.skillMd = r.body
        /\ fetcher.result.files =
               {[path |-> r.key, content |-> r.body] : r \in Downloaded}

\* a.md and the two entries of ref were downloaded, the download of b.md
\* threw and that of shared/e.md was answered with an error status
C20_Witness ==
    /\ fetcher.pc = "returned"
    /\ fetcher.result # NoSkill
    /\ {f.path : f \in fetcher.result.files} = {"a.md", "ref/c.md", "ref/alias"}
    /\ \E r \in fetcher.requests : r.key = "b.md" /\ r.outcome = "throw"
    /\ \E r \in fetcher.requests : r.key = "link/e.md" /\ r.outcome = "notok"
    /\ fetcher.fetchErrors # {}

\* C21: fetchGithubContent returns null only when SKILL.md could not be
\* located: once some branch has answered the request for SKILL.md with an
\* OK response, the returned result is not null, whatever the body of the
\* document and whatever failed afterwards.
C21_NonNullWhenAnyBranchOk ==
    (/\ fetcher.pc = "returned"
     /\ \E r \in fetcher.requests :
            r.purpose = "primary" /\ r.outcome = "ok") =>
        fetcher.result # NoSkill

\* the requests for SKILL.md made so far
PrimaryAsked == {r \in fetcher.requests : r.purpose = "primary"}

\* the branch list the claim prescribes for a resolved branch
OrderedBranches(branch) ==
    IF branch \notin {Undefined, Null, "", "main", "master"}
    THEN <<branch, "main", "master">>
    ELSE <<"main", "master">>

\* C31: SKILL.md is searched over the branch list [explicit branch if it is
\* neither main nor master, main, master], strictly in that order, and the
\* first branch that answers OK wins: its body becomes skillMd, its branch
\* is the one of every later listing and download, and no later branch is
\* requested.
C31_FirstOkBranchWins ==
    fetcher.pc # "idle" =>
        LET branches == OrderedBranches(fetcher.repoInfo.branch)
            n == Cardinality(PrimaryAsked)
        IN  /\ fetcher.branches = branches
            /\ n <= Len(branches)
            /\ {r.url.branch : r \in PrimaryAsked} = {branches[k] : k \in 1..n}
            /\ \A r \in PrimaryAsked :
                  r.outcome = "ok" =>
                      /\ r.url.branch = branches[n]
                      /\ fetcher.pc # "primary"
                      /\ fetcher.skillMd = r.body
                      /\ fetcher.foundBranch = r.url.branch
                      /\ \A q \in fetcher.requests \ PrimaryAsked :
                            q.url.branch = r.url.branch

\* C32: whenever SKILL.md has been found, the entries of the directory
\* that contains it are listed through the contents API, for every
\* subpath, the empty one (a skill at the root of the repository) included.
C32_DirectoryListedWhenFound ==
    (fetcher.pc = "returned" /\ fetcher.result # NoSkill) =>
        \E r \in fetcher.requests :
            /\ r.purpose = "listing"
            /\ r.url = ApiUrl(fetcher.foundBranch, fetcher.repoInfo.path)

(***************************************************************************)
(* Part 6.  parseOwnerRepo on its own: a specification that calls it with  *)
(* source locations of every shape: empty, well-formed URLs with any       *)
(* number of path segments, and strings that new URL() rejects.            *)
(***************************************************************************)
\* the longest run of tokens after the prefix of a source location
MaxUrlTail == 5

\* how a source location begins: nothing, a scheme, a scheme and the
\* GitHub host, the GitHub host without a scheme
UrlPrefixes ==
    {<<>>, <<"https://">>, <<"https://", "github.com">>, <<"github.com">>}

\* what follows: slashes, names, the .git suffix and dots
UrlTailTokens == {"/", "acme", "docs", ".git", "."}

SourceUrls ==
    {pre \o tail : pre \in UrlPrefixes,
                   tail \in SeqsUpTo(UrlTailTokens, MaxUrlTail)}

InitParse ==
    /\ ResolverIdle
    /\ StoreIdle
    /\ tagsCall = NoTagsCall
    /\ retry = NoRetry
    /\ fetcher = NoFetch
    /\ mergeCall = NoMerge
    /\ sync = NoSync
    /\ cli = NoCli
    /\ walk = NoWalk
    /\ \E sourceUrl \in SourceUrls :
          parseCall = [called |-> FALSE, sourceUrl |-> sourceUrl]

\* the call parseOwnerRepo(sourceUrl)
parseOwnerRepoCall ==
    /\ ~parseCall.called
    /\ parseCall' = [called |-> TRUE, sourceUrl |-> parseCall.sourceUrl,
                     returned |-> parseOwnerRepo(parseCall.sourceUrl)]
    /\ UNCHANGED <<resolverVars, conflictCall, storeVars, tagsCall, retry,
                   fetcher, mergeCall, sync, cli, walk>>

NextParse == parseOwnerRepoCall

SpecParse == InitParse /\ [][NextParse]_vars

(***************************************************************************)
(* Properties of parseOwnerRepo.                                           *)
(***************************************************************************)
NoOwnerRepo == [owner |-> "", repo |-> ""]

\* the string contains "github.com/" somewhere
MentionsGithubPath(u) ==
    \E p \in 1..(Len(u) - 1) : u[p] = "github.com" /\ u[p + 1] = "/"

\* C28, as stated: for every source location that is empty or is not a
\* well-formed URL, parseOwnerRepo returns {owner: "", repo: ""}.
C28_MalformedGivesEmpty ==
    (parseCall.called /\ ~UrlParses(parseCall.sourceUrl)) =>
        parseCall.returned = NoOwnerRepo

\* C28, amended: for every source location that is empty, or is not a
\* well-formed URL and does not contain "github.com/", parseOwnerRepo
\* returns {owner: "", repo: ""}; the call returns for every string.
C28_MalformedWithoutGithubGivesEmpty ==
    (/\ parseCall.called
     /\ ~UrlParses(parseCall.sourceUrl)
     /\ ~MentionsGithubPath(parseCall.sourceUrl)) =>
        parseCall.returned = NoOwnerRepo

\* "acme/docs.git" is not a URL and names no host: both fields are empty
C28_Witness ==
    /\ parseCall.called
    /\ parseCall.sourceUrl = <<"acme", "/", "docs", ".git">>
    /\ parseCall.returned = NoOwnerRepo

\* C29: for a well-formed URL whose path has at least two non-empty
\* segments, parseOwnerRepo returns the first segment as owner and the
\* second, without a trailing ".git", as repo; for a well-formed URL with
\* fewer non-empty segments it returns both fields empty.
C29_WellFormedSegments ==
    (parseCall.called /\ UrlParses(parseCall.sourceUrl)) =>
        LET parts == PathParts(parseCall.sourceUrl)
        IN  IF Len(parts) >= 2
            THEN /\ parseCall.returned.owner = Join(parts[1])
                 /\ parseCall.returned.repo = Join(StripGit(parts[2]))
            ELSE parseCall.returned = NoOwnerRepo

\* https://github.com/acme/docs.git gives owner "acme" and repo "docs"
C29_Witness ==
    /\ parseCall.called
    /\ parseCall.sourceUrl =
           <<"https://", "github.com", "/", "acme", "/", "docs", ".git">>
    /\ parseCall.returned = [owner |-> "acme", repo |-> "docs"]

(***************************************************************************)
(* Part 7.  Rebuilding the merged index: OutputWriter.mergeSkillsFromDir   *)
(* (extractors.js 406-438) and the merge command's mergeSkills             *)
(* (merge-skills.js 38-112).  The text of a file is a sequence of tokens   *)
(* that JSON.parse takes apart; a skill name is a sequence of characters,  *)
(* since the sort compares names.                                          *)
(***************************************************************************)
\* the most entries the skills directory holds
MaxDirEntries == 3

LBrace == [t |-> "{"]
RBrace == [t |-> "}"]
Member(k, v) == [t |-> "member", key |-> k, value |-> v]

\* JSON.parse(content): an object of the members between the braces, or a
\* SyntaxError
JSONparse(content) ==
    IF /\ Len(content) >= 2
       /\ content[1] = LBrace
       /\ content[Len(content)] = RBrace
       /\ \A k \in 2..(Len(content) - 1) : content[k].t = "member"
    THEN LET members == SubSeq(content, 2, Len(content) - 1)
             keys    == {members[k].key : k \in DOMAIN members}
             at(key) == CHOOSE k \in DOMAIN members :
                            /\ members[k].key = key
                            /\ \A l \in DOMAIN members :
                                   members[l].key = key => l <= k
         IN  [thrown |-> FALSE,
              value  |-> [key \in keys |-> members[at(key)].value]]
    ELSE [thrown |-> TRUE]

\* the text JSON.stringify gives a per-skill document
SkillText(n) ==
    <<LBrace, Member("name", n), Member("version", <<"1">>), RBrace>>

\* an entry of the directory, as readdir(..., {withFileTypes: true}) lists it
DirEntry(fileName, isFile, content) ==
    [name |-> fileName, isFile |-> isFile, content |-> content]

\* what the skills directory may hold: documents of skills (the file name
\* need not be the skill's name), a document without a name, a truncated
\* document, an empty file, a file that is not .json, a subdirectory
DirEntryPool ==
    { DirEntry(<<"a", ".json">>, TRUE, SkillText(<<"b">>)),
      DirEntry(<<"b", ".json">>, TRUE, SkillText(<<"a">>)),
      DirEntry(<<"f", ".json">>, TRUE, SkillText(<<"a", "b">>)),
      DirEntry(<<"c", ".json">>, TRUE,
               <<LBrace, Member("version", <<"1">>), RBrace>>),
      DirEntry(<<"d", ".json">>, TRUE, <<LBrace, Member("name", <<"d">>)>>),
      DirEntry(<<"e", ".json">>, TRUE, <<>>),
      DirEntry(<<"notes", ".txt">>, TRUE, SkillText(<<"c">>)),
      DirEntry(<<"old", ".json">>, FALSE, <<>>) }

\* the listings of a directory: its entries in the order readdir gives them
Directories ==
    {es \in SeqsUpTo(DirEntryPool, MaxDirEntries) :
        \A k, l \in DOMAIN es : es[k] = es[l] => k = l}

\* entry.name.endsWith('.json')
endsWithJson(fileName) ==
    fileName # <<>> /\ fileName[Len(fileName)] = ".json"

\* the rank of a letter in the collation localeCompare uses
CollationRank(c) ==
    CASE c = "a" -> 1 [] c = "b" -> 2 [] c = "c" -> 3 [] c = "d" -> 4
      [] c = "e" -> 5 [] c = "f" -> 6 [] c = "i" -> 7 [] c = "n" -> 8
      [] c = "u" -> 9

RECURSIVE localeCompare(_, _)
\* x.localeCompare(y): negative, zero or positive
localeCompare(x, y) ==
    IF x = <<>> /\ y = <<>> THEN 0
    ELSE IF x = <<>> THEN -1
    ELSE IF y = <<>> THEN 1
    ELSE IF Head(x) # Head(y)
    THEN (IF CollationRank(Head(x)) < CollationRank(Head(y)) THEN -1 ELSE 1)
    ELSE localeCompare(Tail(x), Tail(y))

\* String(undefined): what localeCompare compares with when b.name is missing
StringOfUndefined == <<"u", "n", "d", "e", "f", "i", "n", "e", "d">>

hasName(skill) == "name" \in DOMAIN skill

\* the name the comparator reads from its second argument
nameOrUndefined(skill) ==
    IF hasName(skill) THEN skill.name ELSE StringOfUndefined

RECURSIVE insertByName(_, _)
\* the list with skill put before the first element that compares greater
insertByName(skill, skills) ==
    IF skills = <<>> THEN <<skill>>
    ELSE IF localeCompare(nameOrUndefined(skill),
                          nameOrUndefined(Head(skills))) < 0
    THEN <<skill>> \o skills
    ELSE <<Head(skills)>> \o insertByName(skill, Tail(skills))

RECURSIVE sortByName(_)
\* skills.sort((a, b) => a.name.localeCompare(b.name)), when no call of the
\* comparator throws: a stable sort
sortByName(skills) ==
    IF skills = <<>> THEN <<>>
    ELSE insertByName(skills[Len(skills)],
                      sortByName(SubSeq(skills, 1, Len(skills) - 1)))

\* whether the sort throws: a.name.localeCompare is a TypeError when a has
\* no name.  Which element the engine passes as `a` is its own choice, so
\* with named and nameless documents together both outcomes are possible.
sortThrows(skills) ==
    IF Len(skills) < 2 \/ \A k \in DOMAIN skills : hasName(skills[k])
    THEN {FALSE}
    ELSE IF \A k \in DOMAIN skills : ~hasName(skills[k]) THEN {TRUE}
    ELSE {TRUE, FALSE}

RECURSIVE readSkills(_, _)
\* the loop over the entries: the documents pushed and the files warned about.
\* requireName is the script's `if (!skill.name)` check.
readSkills(entries, requireName) ==
    IF entries = <<>> THEN [skills |-> <<>>, errors |-> <<>>]
    ELSE LET entry  == Head(entries)
             rest   == readSkills(Tail(entries), requireName)
             parsed == JSONparse(entry.content)
         IN  IF ~entry.isFile \/ ~endsWithJson(entry.name) THEN rest
             ELSE IF parsed.thrown
             THEN [rest EXCEPT !.errors = <<entry.name>> \o @]
             ELSE IF requireName /\ ~hasName(parsed.value)
             THEN [rest EXCEPT !.errors = <<entry.name>> \o @]
             ELSE [rest EXCEPT !.skills = <<parsed.value>> \o @]

\* the merged index document
IndexData(skills) == [meta |-> [total |-> Len(skills)], skills |-> skills]

\* what a rebuild leaves behind: whether it threw, the files it warned
\* about and the index it wrote
mergeOutcome(entries, requireName, throws) ==
    LET read == readSkills(entries, requireName)
    IN  IF throws
        THEN [pc |-> "done", entries |-> entries, thrown |-> TRUE,
              errors |-> read.errors, written |-> NoSkill]
        ELSE [pc |-> "done", entries |-> entries, thrown |-> FALSE,
              errors |-> read.errors,
              written |-> IndexData(sortByName(read.skills))]

InitMerge ==
    /\ ResolverIdle
    /\ StoreIdle
    /\ tagsCall = NoTagsCall
    /\ retry = NoRetry
    /\ fetcher = NoFetch
    /\ parseCall = NoParse
    /\ sync = NoSync
    /\ cli = NoCli
    /\ walk = NoWalk
    /\ \E entries \in Directories :
          mergeCall = [pc |-> "ready", entries |-> entries]

\* OutputWriter.mergeSkillsFromDir()
mergeSkillsFromDir ==
    /\ mergeCall.pc = "ready"
    /\ \E throws \in sortThrows(readSkills(mergeCall.entries, FALSE).skills) :
          mergeCall' = mergeOutcome(mergeCall.entries, FALSE, throws)
    /\ UNCHANGED <<resolverVars, conflictCall, storeVars, tagsCall, retry,
                   fetcher, parseCall, sync, cli, walk>>

\* mergeSkills() of the merge command, without --dry-run
mergeSkills ==
    /\ mergeCall.pc = "ready"
    /\ \E throws \in sortThrows(readSkills(mergeCall.entries, TRUE).skills) :
          mergeCall' = mergeOutcome(mergeCall.entries, TRUE, throws)
    /\ UNCHANGED <<resolverVars, conflictCall, storeVars, tagsCall, retry,
                   fetcher, parseCall, sync, cli, walk>>

NextMerge == mergeSkillsFromDir \/ mergeSkills

SpecMerge == InitMerge /\ [][NextMerge]_vars

(***************************************************************************)
(* Properties of the index rebuild.                                        *)
(***************************************************************************)
\* the per-skill documents of the directory that JSON.parse accepts
ParseableDocuments(entries) ==
    {JSONparse(entries[k].content).value :
        k \in {l \in DOMAIN entries :
                  /\ entries[l].isFile
                  /\ endsWithJson(entries[l].name)
                  /\ ~JSONparse(entries[l].content).thrown}}

\* C27: a rebuild of the merged index does not fail; the skills list of the
\* document it writes holds exactly the documents of the directory that
\* parse, in ascending order of name, and meta.total is its length.
C27_IndexIsParseableSorted ==
    mergeCall.pc = "done" =>
        /\ ~mergeCall.thrown
        /\ LET skills == mergeCall.written.skills
           IN  /\ {skills[k] : k \in DOMAIN skills}
                      = ParseableDocuments(mergeCall.entries)
               /\ Len(skills) = Cardinality(ParseableDocuments(mergeCall.entries))
               /\ \A k \in 1..(Len(skills) - 1) :
                      (hasName(skills[k]) /\ hasName(skills[k + 1])) =>
                          localeCompare(skills[k].name, skills[k + 1].name) <= 0
               /\ mergeCall.written.meta.total = Len(skills)

(***************************************************************************)
(* Part 8.  The sync controller (sync-controller.js 10-326) and the sync   *)
(* command that drives it (part_003 16-61).  A catalog entry is a record   *)
(* that has the fields the API sent, so a missing stars or updatedAt is a  *)
(* missing field; githubUrl is a sequence of tokens, as parseOwnerRepo     *)
(* takes it apart.                                                         *)
(***************************************************************************)
\* the most names (or listed skills) of one run
MaxNames == 2

\* the entries the catalog knows
ApiAcme ==
    [name |-> "docs", description |-> "Writes docs", githubUrl |-> UrlAcme,
     stars |-> 7]
ApiBeta == [name |-> "docs", description |-> "", githubUrl |-> UrlBeta]
ApiBare ==
    [name |-> "docs", description |-> "Bare docs", githubUrl |-> UrlBare,
     stars |-> 0]
ApiKit ==
    [name |-> "docs-kit", description |-> "A kit", githubUrl |-> UrlBeta,
     stars |-> 9]
ApiStale ==
    [name |-> "lint", description |-> "Lints", githubUrl |-> UrlBeta,
     stars |-> 2, updatedAt |-> "yesterday"]
ApiLocal == [name |-> "lint", description |-> "Lints", githubUrl |-> <<>>]

\* what a catalog query comes back with: an error status, or
\* result.data?.skills || result.data || []
SearchThrows(msg) == [throws |-> TRUE, error |-> msg]
SearchResult(skills) == [throws |-> FALSE, skills |-> skills]

SearchReplies ==
    { SearchThrows("API Error: Unauthorized"),
      SearchResult(<<>>),
      SearchResult(<<ApiKit>>),
      SearchResult(<<ApiKit, ApiAcme>>),
      SearchResult(<<ApiBeta>>),
      SearchResult(<<ApiBeta, ApiBare, ApiAcme>>),
      SearchResult(<<ApiStale>>),
      SearchResult(<<ApiLocal>>) }

\* skill.stars || 0
starsOr0(skill) == IF "stars" \in DOMAIN skill THEN skill.stars ELSE 0

RECURSIVE insertByStars(_, _)
\* the list with skill put before the first element with fewer stars
insertByStars(skill, skills) ==
    IF skills = <<>> THEN <<skill>>
    ELSE IF starsOr0(Head(skills)) - starsOr0(skill) < 0
    THEN <<skill>> \o skills
    ELSE <<Head(skills)>> \o insertByStars(skill, Tail(skills))

RECURSIVE sortByStars(_)
\* [...skills].sort((a, b) => (b.stars || 0) - (a.stars || 0)): stable
sortByStars(skills) ==
    IF skills = <<>> THEN <<>>
    ELSE insertByStars(skills[Len(skills)],
                       sortByStars(SubSeq(skills, 1, Len(skills) - 1)))

\* what the operator may type when asked for a number
SelectAnswers ==
    { <<"0">>, <<"1">>, <<" ", "2", " ">>, <<"3">>, <<"4">>, <<"2", "a">>,
      <<"1", ".", "5">>, <<"-", "1">>, <<"x">>, <<>> }

IsDigit(c) == c \in {"0", "1", "2", "3", "4", "5"}

DigitValue(c) ==
    CASE c = "0" -> 0 [] c = "1" -> 1 [] c = "2" -> 2 [] c = "3" -> 3
      [] c = "4" -> 4 [] c = "5" -> 5

RECURSIVE LeadingDigits(_)
\* the digits a string starts with
LeadingDigits(cs) ==
    IF cs = <<>> \/ ~IsDigit(Head(cs)) THEN <<>>
    ELSE <<Head(cs)>> \o LeadingDigits(Tail(cs))

RECURSIVE DecimalValue(_)
DecimalValue(ds) ==
    IF ds = <<>> THEN 0
    ELSE 10 * DecimalValue(SubSeq(ds, 1, Len(ds) - 1)) + DigitValue(ds[Len(ds)])

NaN == [nan |-> TRUE]

\* parseInt(answer, 10): white space and a sign are skipped, then the digits
\* up to the first other character are read; NaN when there is no digit
parseInt10(cs) ==
    LET t        == TrimStart(cs)
        negative == t # <<>> /\ Head(t) = "-"
        unsigned == IF t # <<>> /\ Head(t) \in {"-", "+"} THEN Tail(t) ELSE t
        digits   == LeadingDigits(unsigned)
    IN  IF digits = <<>> THEN NaN
        ELSE [nan |-> FALSE,
              value |-> IF negative THEN 0 - DecimalValue(digits)
                        ELSE DecimalValue(digits)]

\* promptUserToSelectSkill(skills): the entry chosen, or null.  typed is the
\* line the operator enters; it is not read in non-interactive mode.
promptUserToSelectSkill(skills, typed, options) ==
    LET sortedSkills == sortByStars(skills)
        choice       == parseInt10(TrimEnd(TrimStart(typed)))
    IN  IF options.nonInteractive THEN sortedSkills[1]
        ELSE IF choice.nan \/ choice.value < 0
                           \/ choice.value > Len(sortedSkills)
        THEN NoSkill
        ELSE IF choice.value = 0 THEN NoSkill
        ELSE sortedSkills[choice.value]

\* new Date(apiData.updatedAt * 1000).toISOString() is a RangeError when
\* updatedAt is not a number
extractThrows(apiData) ==
    "updatedAt" \in DOMAIN apiData /\ apiData.updatedAt = "yesterday"

\* an owner name as the characters normalizeTags works on
Chars(str) ==
    CASE str = "" -> <<>>
      [] str = "acme" -> <<"a", "c", "m", "e">>
      [] str = "beta" -> <<"b", "e", "t", "a">>

\* FeatureExtractor.extractFromApiData(apiData), when it returns: the
\* catalog sends no tags, so the tags are the owner alone, if there is one
extractFromApiData(apiData) ==
    LET sourceUrl == apiData.githubUrl
        origin    == parseOwnerRepo(sourceUrl)
    IN  [name |-> apiData.name, description |-> apiData.description,
         tags |-> normalizeTags(TagsUndefined,
                                [owner |-> Chars(origin.owner),
                                 maxTags |-> 5]),
         version |-> "1.0.0", author |-> "",
         owner |-> origin.owner,
         repo |-> IF origin.repo = "" THEN apiData.name ELSE origin.repo,
         sourceUrl |-> sourceUrl, stars |-> starsOr0(apiData)]

\* FeatureExtractor.extract(skillMd, {owner, maxTags: 5}): a document that
\* is a heading alone has no front matter, no first paragraph and no
\* keyword, so its tags are again the owner alone
extract(skillMd, options) ==
    CASE skillMd = "# docs" ->
             [description |-> "",
              tags |-> normalizeTags(TagsUndefined, options)]

\* what fetchGithubContent(features) returns: null, or SKILL.md and files
GithubContents ==
    { NoSkill,
      [skillMd |-> "# docs", files |-> {}],
      [skillMd |-> "# docs",
       files |-> {[path |-> "ref/a.md", content |-> "A"]}] }

\* the features after the fetch (sync-controller.js 87-96)
mergeFeatures(features, githubContent) ==
    IF githubContent = NoSkill THEN features
    ELSE LET extractedFeatures ==
                 extract(githubContent.skillMd,
                         [owner |-> Chars(features.owner), maxTags |-> 5])
         IN  [features EXCEPT
                 !.description = IF @ = "" THEN extractedFeatures.description
                                 ELSE @,
                 !.tags = IF Len(@) > 0 THEN @ ELSE extractedFeatures.tags]

\* apiData after the fetch: content and files are set only when something
\* came back
withContent(apiData, githubContent) ==
    IF githubContent = NoSkill
    THEN [name |-> apiData.name, githubUrl |-> apiData.githubUrl,
          content |-> Undefined, files |-> {}]
    ELSE [name |-> apiData.name, githubUrl |-> apiData.githubUrl,
          content |-> githubContent.skillMd, files |-> githubContent.files]

\* a persisted document or incoming features as the conflict check reads
\* them: name, owner (not stored) and sourceUrl
asSkill(record) ==
    IF record = NoSkill THEN NoSkill
    ELSE [name |-> record.name,
          owner |-> IF "owner" \in DOMAIN record THEN record.owner
                    ELSE Undefined,
          sourceUrl |-> record.sourceUrl]

\* OutputWriter.saveSkill of writers.js: a skill whose name is persisted
\* with another origin owner is not written but reported as a conflict;
\* everything else is saved as the writer of extractors.js saves it
writerSaveSkill(skillData, features) ==
    IF isConflict(asSkill(readSkillJson(skillData.name)), asSkill(features))
    THEN /\ lastSave' = [called |-> TRUE, skillData |-> skillData,
                         features |-> features,
                         returned |-> [saved |-> FALSE, action |-> "conflict"]]
         /\ UNCHANGED <<skillsJson, collection, now, lastCheck>>
    ELSE saveSkill(skillData, features)

\* new SyncController(config, options)
SyncController(mode, items, options) ==
    [pc |-> "loop", mode |-> mode, items |-> items, k |-> 0,
     options |-> options,
     stats |-> [synced |-> 0, updated |-> 0, created |-> 0, skipped |-> 0,
                failed |-> 0, errors |-> <<>>, conflicts |-> 0],
     processedSkills |-> <<>>,
     results |-> <<>>,
     log |-> <<>>]

\* the name of the item the loop is at
itemName(sy) ==
    IF sy.mode = "names" THEN sy.items[sy.k + 1] ELSE sy.items[sy.k + 1].name

\* apiDataList.filter(s => s.name === name)
matchedSkills(reply, name) ==
    IF reply.throws THEN <<>>
    ELSE SelectSeq(reply.skills, LAMBDA skill : skill.name = name)

\* the catalog entry the item goes on with, or null
selectApiData(sy, reply, typed) ==
    IF sy.mode = "batch" THEN sy.items[sy.k + 1]
    ELSE LET matched == matchedSkills(reply, itemName(sy))
         IN  IF Len(matched) = 0 THEN NoSkill
             ELSE IF Len(matched) = 1 THEN matched[1]
             ELSE promptUserToSelectSkill(matched, typed, sy.options)

\* one line of the trace of a run, what happened to one item: whether
\* something threw, the exact-name matches, what the operator typed, the
\* entry selected (or null), what the fetch returned ("none" when no fetch
\* was made), how the item was counted and whether the store changed
LogEntry(name, threw, matched, typed, selected, fetched, outcome, wrote) ==
    [name |-> name, threw |-> threw, matched |-> matched, typed |-> typed,
     selected |-> selected, fetched |-> fetched, outcome |-> outcome,
     wrote |-> wrote]

\* variant: the exception leaves the loop
catchItem_Rethrow(sy, name, error) ==
    [sy EXCEPT !.pc = "thrown"]

\* the catch block of the loop body (sync-controller.js 141-145)
catchItem(sy, name, error) ==
    [sy EXCEPT !.stats.failed = @ + 1,
               !.stats.errors = Append(@, [name |-> name, error |-> error])]

\* the not-found branches: this.stats.skipped++; continue
skipItem(sy) == [sy EXCEPT !.stats.skipped = @ + 1]

\* variant: a conflicting skill is reported like a saved one
applySaveResult_ConflictSynced(sy, apiData, saveResult, existingData) ==
    IF saveResult.saved \/ saveResult.action = "conflict"
    THEN [sy EXCEPT !.results = Append(@, apiData),
                    !.stats.synced = @ + 1]
    ELSE [sy EXCEPT
             !.results = IF existingData # NoSkill THEN Append(@, existingData)
                         ELSE @,
             !.stats.skipped = @ + 1]

\* what the loop does with the result of saveSkill
\* (sync-controller.js 114-139)
applySaveResult(sy, apiData, saveResult, existingData) ==
    IF saveResult.saved
    THEN [sy EXCEPT
             !.results = Append(@, saveResult.data),
             !.stats.synced = @ + 1,
             !.stats.created = IF saveResult.action = "created" THEN @ + 1
                               ELSE @,
             !.stats.updated = IF saveResult.action = "updated" THEN @ + 1
                               ELSE @]
    ELSE IF saveResult.action = "conflict"
    THEN [sy EXCEPT !.stats.conflicts = @ + 1,
                    !.processedSkills = Append(@, apiData)]
    ELSE [sy EXCEPT
             !.results = IF existingData # NoSkill THEN Append(@, existingData)
                         ELSE @,
             !.stats.skipped = @ + 1]

\* the loop moves on to the next item, unless an exception left it
nextItem(sy, entry) ==
    IF sy.pc = "thrown" THEN [sy EXCEPT !.log = Append(@, entry)]
    ELSE [sy EXCEPT !.k = @ + 1, !.log = Append(@, entry)]

(***************************************************************************)
(* The sync command and the controller as a state machine.                 *)
(***************************************************************************)
\* parseArgs(): --names n1 n2 ..., or the default batch mode with --limit
SyncArgs ==
    {[mode |-> "names", names |-> ns] :
        ns \in SeqsUpTo(StoreNames, MaxNames)}
        \cup {[mode |-> "batch", limit |-> n] : n \in 1..MaxNames}

\* what getTopSkills(limit, sortBy) comes back with
TopSkills(limit) ==
    {SearchThrows("API Error: Service Unavailable")}
        \cup {SearchResult(skills) :
                 skills \in SeqsUpTo({ApiAcme, ApiBeta, ApiStale}, limit)}

\* the document and directory an earlier run left for ApiAcme
PersistedAcme ==
    SkillJsonData("docs",
                  mergeFeatures(extractFromApiData(ApiAcme),
                                [skillMd |-> "# docs", files |-> {}]), 0)

\* the output directory at the start of a run: empty, or holding "docs"
InitialStores ==
    { [json |-> [n \in StoreNames |-> NoSkill],
       dirs |-> [n \in StoreNames |-> NoSkill]],
      [json |-> [n \in StoreNames |->
                    IF n = "docs" THEN PersistedAcme ELSE NoSkill],
       dirs |-> [n \in StoreNames |->
                    IF n = "docs" THEN [skillMd |-> "# docs", files |-> {}]
                    ELSE NoSkill]] }

InitSync ==
    /\ ResolverIdle
    /\ tagsCall = NoTagsCall
    /\ retry = NoRetry
    /\ fetcher = NoFetch
    /\ parseCall = NoParse
    /\ mergeCall = NoMerge
    /\ walk = NoWalk
    /\ \E store \in InitialStores :
          /\ skillsJson = store.json
          /\ collection = store.dirs
    /\ now = 1
    /\ lastCheck = NoCheck
    /\ lastSave = NoSave
    /\ sync = NoSync
    /\ \E token \in BOOLEAN, args \in SyncArgs, nonInteractive1 \in BOOLEAN :
          cli = [pc |-> "start", token |-> token, args |-> args,
                 options |-> [nonInteractive |-> nonInteractive1],
                 validated |-> FALSE, requests |-> 0, output |-> <<>>]

\* process.exit(code), or the end of main
Exit(c, code) ==
    [f \in DOMAIN c \cup {"exitCode"} |->
        IF f = "exitCode" THEN code ELSE IF f = "pc" THEN "exited" ELSE c[f]]

syncIdleRest ==
    <<resolverVars, conflictCall, tagsCall, retry, fetcher, parseCall,
      mergeCall, walk>>

\* variant: a missing token is only reported
mainValidateConfig_Continue ==
    /\ cli.pc = "start"
    /\ cli' = [cli EXCEPT !.pc = "validated", !.validated = cli.token]
    /\ UNCHANGED <<syncIdleRest, storeVars, sync>>

\* main: validateConfig() and its catch (part_003 20-28, config.js 37-43)
mainValidateConfig ==
    /\ cli.pc = "start"
    /\ cli' = IF ~cli.token THEN Exit(cli, 1)
              ELSE [cli EXCEPT !.pc = "validated", !.validated = TRUE]
    /\ UNCHANGED <<syncIdleRest, storeVars, sync>>

\* main: parseArgs(), new SyncController(CONFIG) and the choice of the mode
\* (part_003 30-45)
mainStart ==
    /\ cli.pc = "validated"
    /\ IF cli.args.mode = "names"
       THEN IF Len(cli.args.names) = 0
            THEN /\ cli' = Exit(cli, 1)
                 /\ sync' = SyncController("names", <<>>, cli.options)
            ELSE /\ cli' = [cli EXCEPT !.pc = "syncing"]
                 /\ sync' = SyncController("names", cli.args.names,
                                           cli.options)
       ELSE /\ cli' = [cli EXCEPT !.pc = "listing"]
            /\ sync' = SyncController("batch", <<>>, cli.options)
    /\ UNCHANGED <<syncIdleRest, storeVars>>

\* syncBatch: getTopSkills (sync-controller.js 215), which no try encloses
getTopSkills ==
    /\ cli.pc = "listing"
    /\ \E listing \in TopSkills(cli.args.limit) :
          IF listing.throws
          THEN /\ cli' = [cli EXCEPT !.pc = "failed", !.requests = @ + 1]
               /\ sync' = [sync EXCEPT !.pc = "thrown"]
          ELSE /\ cli' = [cli EXCEPT !.pc = "syncing", !.requests = @ + 1]
               /\ sync' = [sync EXCEPT !.items = listing.skills]
    /\ UNCHANGED <<syncIdleRest, storeVars>>

\* the replies the catalog may give for the item: none is asked in batch mode
SearchChoices(sy) ==
    IF sy.mode = "names" THEN SearchReplies
    ELSE {SearchResult(<<sy.items[sy.k + 1]>>)}

\* the lines the operator may type: one is read only when several entries
\* match and the run is interactive
TypedChoices(sy, reply) ==
    IF /\ sy.mode = "names"
       /\ Len(matchedSkills(reply, itemName(sy))) > 1
       /\ ~sy.options.nonInteractive
    THEN SelectAnswers ELSE {<<>>}

\* if (features.sourceUrl): the fetch is made only for a non-empty URL
ContentChoices(features) ==
    IF features.sourceUrl = <<>> THEN {NoSkill} ELSE GithubContents

\* an item ends without a call of saveSkill
itemDone(sy, entry, requests) ==
    /\ sync' = nextItem(sy, entry)
    /\ cli' = [cli EXCEPT
                  !.requests = @ + requests,
                  !.pc = IF sy.pc = "thrown" THEN "failed" ELSE @]
    /\ UNCHANGED storeVars

\* one pass of the loop of syncByNames (sync-controller.js 41-146) or of
\* syncBatch (220-283): query, selection, extraction, fetch, save
syncItem ==
    /\ cli.pc = "syncing"
    /\ sync.pc = "loop"
    /\ sync.k < Len(sync.items)
    /\ UNCHANGED syncIdleRest
    /\ \E reply \in SearchChoices(sync) :
       \E typed \in TypedChoices(sync, reply) :
          LET name     == itemName(sync)
              asked    == IF sync.mode = "names" THEN 1 ELSE 0
              matched  == matchedSkills(reply, name)
              apiData  == selectApiData(sync, reply, typed)
          IN  IF reply.throws
              THEN itemDone(catchItem(sync, name, reply.error),
                            LogEntry(name, TRUE, <<>>, typed, NoSkill, "none",
                                     "failed", FALSE), asked)
              ELSE IF apiData = NoSkill
              THEN itemDone(skipItem(sync),
                            LogEntry(name, FALSE, matched, typed, NoSkill,
                                     "none", "skipped", FALSE), asked)
              ELSE IF extractThrows(apiData)
              THEN itemDone(catchItem(sync, name, "Invalid time value"),
                            LogEntry(name, TRUE, matched, typed, apiData,
                                     "none", "failed", FALSE), asked)
              ELSE
              \E githubContent \in ContentChoices(extractFromApiData(apiData)),
                 writeThrows \in BOOLEAN :
                  LET features0 == extractFromApiData(apiData)
                      fetched   == IF features0.sourceUrl = <<>> THEN "none"
                                   ELSE IF githubContent = NoSkill THEN "null"
                                   ELSE "content"
                      fetches   == IF fetched = "none" THEN 0 ELSE 1
                      features  == mergeFeatures(features0, githubContent)
                      skillData == withContent(apiData, githubContent)
                  IN  IF writeThrows
                      THEN itemDone(catchItem(sync, name,
                                        "EACCES: permission denied"),
                                    LogEntry(name, TRUE, matched, typed,
                                             apiData, fetched, "failed",
                                             FALSE),
                                    asked + fetches)
                      ELSE /\ writerSaveSkill(skillData, features)
                           /\ sync' =
                                 nextItem(
                                     applySaveResult(sync, skillData,
                                         lastSave'.returned,
                                         readSkillJson(skillData.name)),
                                     LogEntry(name, FALSE, matched, typed,
                                         apiData, fetched,
                                         lastSave'.returned.action,
                                         \/ skillsJson' # skillsJson
                                         \/ collection' # collection))
                           /\ cli' = [cli EXCEPT
                                         !.requests = @ + asked + fetches]

\* the loop is over: return results, and main goes on to the index
\* (part_003 52-54)
syncReturn ==
    /\ cli.pc = "syncing"
    /\ sync.pc = "loop"
    /\ sync.k = Len(sync.items)
    /\ sync' = [sync EXCEPT !.pc = "returned"]
    /\ cli' = [cli EXCEPT !.pc = IF Len(sync.results) > 0 THEN "merge"
                                 ELSE "print"]
    /\ UNCHANGED <<syncIdleRest, storeVars>>

\* main: await controller.writer.mergeSkillsFromDir(), which may throw
mainMerge(throws) ==
    /\ cli.pc = "merge"
    /\ cli' = [cli EXCEPT !.pc = IF throws THEN "failed" ELSE "print"]
    /\ UNCHANGED <<syncIdleRest, storeVars, sync>>

\* what printStats prints (sync-controller.js 313-325)
Summary(stats) ==
    [synced |-> stats.synced, created |-> stats.created,
     updated |-> stats.updated, skipped |-> stats.skipped,
     failed |-> stats.failed, errors |-> stats.errors]

\* main: controller.printStats() and the end of main (part_003 56-57)
mainPrintStats ==
    /\ cli.pc = "print"
    /\ cli' = Exit([cli EXCEPT !.output = Append(@, Summary(sync.stats))], 0)
    /\ UNCHANGED <<syncIdleRest, storeVars, sync>>

\* main: catch (error) { console.error(...); process.exit(1); }
mainCatch ==
    /\ cli.pc = "failed"
    /\ cli' = Exit(cli, 1)
    /\ UNCHANGED <<syncIdleRest, storeVars, sync>>

NextSync ==
    \/ mainValidateConfig
    \/ mainStart
    \/ getTopSkills
    \/ syncItem
    \/ syncReturn
    \/ \E throws \in BOOLEAN : mainMerge(throws)
    \/ mainPrintStats
    \/ mainCatch

SpecSync == InitSync /\ [][NextSync]_vars

(***************************************************************************)
(* The controller used as a library: a caller constructs it, awaits        *)
(* syncByNames(names) and then awaits resolveAllConflicts().               *)
(***************************************************************************)
\* what writer.resolveAllConflicts(processedSkills) resolves to: one
\* { result } per queued skill, each skipped, replaced or renamed
resolveResults(processedSkills) ==
    [1..Len(processedSkills) ->
        {[result |-> [action |-> a]] : a \in {"skip", "replace", "rename"}}]

\* variant: a resolved conflict is counted as synced only
countResolved_SyncedOnly(stats, results) ==
    LET written == SelectSeq(results,
                       LAMBDA r : r.result.action \in {"replace", "rename"})
    IN  [stats EXCEPT !.synced = @ + Len(written)]

\* the loop over the results (sync-controller.js 300-305): a replaced or a
\* renamed skill is counted as synced and as updated
countResolved(stats, results) ==
    LET written == SelectSeq(results,
                       LAMBDA r : r.result.action \in {"replace", "rename"})
    IN  [stats EXCEPT !.synced = @ + Len(written),
                      !.updated = @ + Len(written)]

\* the caller: new SyncController(config, options), then syncByNames(names)
InitController ==
    /\ ResolverIdle
    /\ tagsCall = NoTagsCall
    /\ retry = NoRetry
    /\ fetcher = NoFetch
    /\ parseCall = NoParse
    /\ mergeCall = NoMerge
    /\ walk = NoWalk
    /\ \E store \in InitialStores :
          /\ skillsJson = store.json
          /\ collection = store.dirs
    /\ now = 1
    /\ lastCheck = NoCheck
    /\ lastSave = NoSave
    /\ \E names \in SeqsUpTo(StoreNames, MaxNames),
          nonInteractive1 \in BOOLEAN :
          /\ cli = [pc |-> "syncing", token |-> TRUE,
                    args |-> [mode |-> "names", names |-> names],
                    options |-> [nonInteractive |-> nonInteractive1],
                    validated |-> TRUE, requests |-> 0, output |-> <<>>]
          /\ sync = SyncController("names", names,
                                   [nonInteractive |-> nonInteractive1])

\* syncByNames returns its results to the caller
syncByNamesReturn ==
    /\ cli.pc = "syncing"
    /\ sync.pc = "loop"
    /\ sync.k = Len(sync.items)
    /\ sync' = [sync EXCEPT !.pc = "returned"]
    /\ cli' = [cli EXCEPT !.pc = "returned"]
    /\ UNCHANGED <<syncIdleRest, storeVars>>

\* SyncController.resolveAllConflicts (sync-controller.js 291-308): nothing
\* is asked of the writer when no conflict was counted
resolveAllConflicts ==
    /\ cli.pc = "returned"
    /\ sync.pc = "returned"
    /\ IF sync.stats.conflicts = 0
       THEN sync' = [sync EXCEPT !.pc = "resolved"]
       ELSE \E results \in resolveResults(sync.processedSkills) :
               sync' = [sync EXCEPT
                           !.pc = "resolved",
                           !.stats = countResolved(sync.stats, results)]
    /\ cli' = [cli EXCEPT !.pc = "resolved"]
    /\ UNCHANGED <<syncIdleRest, storeVars>>

NextController ==
    \/ syncItem
    \/ syncByNamesReturn
    \/ resolveAllConflicts

SpecController == InitController /\ [][NextController]_vars

(***************************************************************************)
(* Properties of the sync controller and of the sync command.              *)
(***************************************************************************)
\* the controller exists: main has constructed it
Constructed == sync.pc # "idle"

\* the name of the j-th item of the run
NameOfItem(j) ==
    IF sync.mode = "names" THEN sync.items[j] ELSE sync.items[j].name

\* the log entries of the items in which something threw
Thrown == SelectSeq(sync.log, LAMBDA e : e.threw)

\* C22: a failure in one item does not abort the batch.  Every item in
\* which the catalog query, the extraction or the write throws adds one to
\* stats.failed and one {name, error} entry to stats.errors; the loop goes
\* on with the next name in order, and the call returns normally.
C22_ItemFailureIsolated ==
    Constructed =>
        /\ Len(sync.log) = sync.k
        /\ \A j \in 1..Len(sync.log) : sync.log[j].name = NameOfItem(j)
        /\ sync.stats.failed = Len(Thrown)
        /\ Len(sync.stats.errors) = Len(Thrown)
        /\ \A j \in 1..Len(Thrown) : sync.stats.errors[j].name = Thrown[j].name
        /\ sync.pc = "thrown" => sync.log = <<>>
        /\ sync.pc = "returned" => sync.k = Len(sync.items)

\* the first of two names failed, the second was saved, and syncByNames
\* has returned
C22_Witness ==
    /\ Constructed
    /\ sync.pc = "returned"
    /\ sync.mode = "names"
    /\ Len(sync.log) = 2
    /\ sync.log[1].threw
    /\ sync.log[2].outcome = "created"
    /\ sync.stats.failed = 1

\* C23: an item is recorded as skipped, and nothing is persisted for it,
\* when the catalog has no entry of exactly that name and when
\* fetchGithubContent returns null.
C23_NotFoundIsSkipped ==
    Constructed =>
        \A j \in 1..Len(sync.log) :
            LET e == sync.log[j]
            IN  (~e.threw /\ (e.matched = <<>> \/ e.fetched = "null")) =>
                    e.outcome = "skipped" /\ ~e.wrote

\* the origin owner of a source location
OriginOwner(sourceUrl) == parseOwnerRepo(sourceUrl).owner

\* the step is a pass of the loop that reached saveSkill with an entry whose
\* name is persisted under another origin owner
ConflictingItem ==
    /\ sync.pc = "loop"
    /\ sync'.pc = "loop"
    /\ Len(sync'.log) = Len(sync.log) + 1
    /\ LET e == sync'.log[Len(sync'.log)]
       IN  /\ ~e.threw
           /\ e.selected # NoSkill
           /\ skillsJson[e.name] # NoSkill
           /\ OriginOwner(skillsJson[e.name].sourceUrl)
                  # OriginOwner(e.selected.githubUrl)

C25_SummaryOnEveryPath ==
    (cli.pc = "exited" /\ cli.validated) =>
        \E j \in 1..Len(cli.output) : cli.output[j] = Summary(sync.stats)

\* the output directory is as it was when the run started
StoreUntouched ==
    /\ [json |-> skillsJson, dirs |-> collection] \in InitialStores
    /\ lastSave = NoSave

\* C26: without SKILLSMP_API_TOKEN the run ends with a non-zero exit code,
\* no request to the catalog or to the remote host has been made and
\* nothing has been written.
C26_MissingTokenAborts ==
    (cli.pc # "idle" /\ cli.pc # "start" /\ ~cli.token) =>
        /\ cli.pc = "exited"
        /\ cli.exitCode # 0
        /\ cli.requests = 0
        /\ sync = NoSync
        /\ StoreUntouched

\* main has ended with exit code 1 on a missing token, before it read the
\* names it was given
C26_Witness ==
    /\ cli.pc = "exited"
    /\ ~cli.token
    /\ cli.exitCode = 1
    /\ cli.args.mode = "names"
    /\ Len(cli.args.names) = MaxNames

\* the line is the decimal numeral of an integer in 1..n
IntegerUpTo(typed, n) ==
    LET t == TrimEnd(TrimStart(typed))
    IN  Len(t) = 1 /\ IsDigit(t[1]) /\ DigitValue(t[1]) \in 1..n

\* C30: with several entries of exactly the requested name, non-interactive
\* mode selects an entry whose stars (0 when missing) are not below those of
\* any other; in interactive mode the input 0 and every input that is not
\* an integer in 1..n select nothing, and the name is counted as skipped.
C30_SelectionAmongSameName ==
    Constructed =>
        \A j \in 1..Len(sync.log) :
            LET e == sync.log[j]
                n == Len(e.matched)
            IN  (sync.mode = "names" /\ n > 1) =>
                    IF sync.options.nonInteractive
                    THEN /\ \E k \in 1..n : e.selected = e.matched[k]
                         /\ \A k \in 1..n :
                                starsOr0(e.selected) >= starsOr0(e.matched[k])
                    ELSE ~IntegerUpTo(e.typed, n) =>
                             e.selected = NoSkill /\ e.outcome = "skipped"

----
\* the four outcome counters of the run
Outcomes(stats) ==
    stats.synced + stats.skipped + stats.failed + stats.conflicts

\* how many of the names gone through ended with one of the given outcomes
Ended(outcomes) ==
    Len(SelectSeq(sync.log, LAMBDA e : e.outcome \in outcomes))

MaxDepth == 3

\* the text of the symlink
LinkTargets ==
    { <<"/", "skills", "/", "shared">>,
      <<"/", "skills", "/", "docs">>,
      <<".", "/", "c.md">>,
      <<".", "/", "ref">>,
      <<".", "/", ".", "/", "c.md">>,
      <<"..", "/", "shared", " ">>,
      <<"..", "/", "docs">>,
      <<"..", "/", "..", "/", "docs">>,
      <<" ", "..", "/", ".", "/", "shared", "/", "/", "e.md">>,
      <<"..", "/", "..", "/", "..", "/", "..", "/", "skills", "/", "shared">>,
      <<"a.md">>,
      <<"ref">>,
      <<"..">>,
      <<"shared", "/", "..", "/", "x">> }

\* a repository: the directory that holds the symlink, and its text
Trees == [at : {PathDocs, PathRef}, target : LinkTargets]

\* response.json() of the contents API for the directory
TreeItems(tree, dirPath) ==
    LET link == IF tree.at = dirPath
                THEN <<Item("symlink", "link", dirPath, tree.target)>>
                ELSE <<>>
    IN  CASE dirPath = PathDocs ->
                 <<Item("file", "SKILL.md", PathDocs, <<>>),
                   Item("file", "a.md", PathDocs, <<>>),
                   Item("dir", "ref", PathDocs, <<>>)>> \o link
          [] dirPath = PathRef ->
                 <<Item("file", "c.md", PathRef, <<>>)>> \o link
          [] dirPath = PathShared ->
                 <<Item("file", "e.md", PathShared, <<>>)>>
          [] OTHER -> NotArray

\* (await linkResponse.text()).trim() for the texts of LinkTargets
TrimmedTarget == [target \in LinkTargets |-> trim(target)]

\* resolvedPath for the links of Trees, as the callback over the skill's
\* directory ("top") and as fetchDirectoryContents ("directory") compute it
Resolved ==
    [handler \in {"top", "directory"},
     itemPath \in {PathDocs \o <<"/", "link">>, PathRef \o <<"/", "link">>},
     target \in LinkTargets |->
        IF handler = "top" THEN resolvedPath(itemPath, trim(target))
        ELSE resolvedPathInDirectory(itemPath, trim(target))]

\* the locals of one call: of the callbacks over the skill's directory
\* (handler "top") or of fetchDirectoryContents (handler "directory")
Frame(handler, basePath, items) ==
    [handler |-> handler, basePath |-> basePath, items |-> items, k |-> 1,
     files |-> <<>>, phase |-> "item", resolvedTo |-> <<>>, asked |-> <<>>]

\* the call that is running, the entry it is at and the path its content is
\* stored under
TopFrame == walk.stack[Len(walk.stack)]
CurrentItem == TopFrame.items[TopFrame.k]
ItemKey(frame) ==
    IF frame.handler = "top" THEN frame.items[frame.k].name
    ELSE frame.basePath \o "/" \o frame.items[frame.k].name

\* the entry is done: what it gave is kept and the next one is taken
advance(frame, files) ==
    [frame EXCEPT !.files = @ \o files, !.k = @ + 1, !.phase = "item",
                  !.resolvedTo = <<>>, !.asked = <<>>]

\* the running call is replaced
withTop(w, frame) == [w EXCEPT !.stack[Len(w.stack)] = frame]

\* fetchDirectoryContents(owner, repo, dirPath, branch, basePath) is called
\* by the running call, which waits in `waiting`: with a listing the new
\* call runs, without one it has returned no files
enter(w, waiting, dirPath, basePath, outcome, empty) ==
    IF outcome = "ok" /\ TreeItems(w.tree, dirPath) # NotArray
    THEN IF Len(w.stack) - 1 < MaxDepth
         THEN [withTop(w, waiting) EXCEPT
                  !.stack = Append(@, Frame("directory", basePath,
                                            TreeItems(w.tree, dirPath)))]
         ELSE [w EXCEPT !.pc = "deeper"]
    ELSE withTop(w, empty)

\* the skill's directory has been listed and its entries are taken up
walkStart ==
    /\ walk.pc = "idle"
    /\ walk' = [pc |-> "walking", tree |-> walk.tree,
                stack |-> <<Frame("top", "", TreeItems(walk.tree, PathDocs))>>,
                resolutions |-> {}, tried |-> {}, files |-> <<>>]
    /\ UNCHANGED <<resolverVars, conflictCall, storeVars, tagsCall, retry,
                   fetcher, parseCall, mergeCall, sync, cli>>

AtItem(type) ==
    /\ walk.pc = "walking"
    /\ TopFrame.k <= Len(TopFrame.items)
    /\ TopFrame.phase = "item"
    /\ CurrentItem.type = type

\* an entry of type 'file': SKILL.md is skipped in the skill's directory,
\* any other file is downloaded
walkFile(outcome) ==
    /\ AtItem("file")
    /\ walk' = withTop(walk,
          IF TopFrame.handler = "top"
                 /\ CurrentItem.name \in {"SKILL.md", "skill.md"}
          THEN advance(TopFrame, <<>>)
          ELSE advance(TopFrame, IF outcome = "ok"
                                 THEN <<ItemKey(TopFrame)>> ELSE <<>>))
    /\ UNCHANGED <<resolverVars, conflictCall, storeVars, tagsCall, retry,
                   fetcher, parseCall, mergeCall, sync, cli>>

\* an entry of type 'dir'
walkDir(outcome) ==
    /\ AtItem("dir")
    /\ walk' = enter(walk, TopFrame, CurrentItem.path, ItemKey(TopFrame),
                     outcome, advance(TopFrame, <<>>))
    /\ UNCHANGED <<resolverVars, conflictCall, storeVars, tagsCall, retry,
                   fetcher, parseCall, mergeCall, sync, cli>>

\* an entry of type 'symlink': its text is read and resolved
walkLink(outcome) ==
    /\ AtItem("symlink")
    /\ LET targetPath == TrimmedTarget[CurrentItem.target]
           resolvedTo == Resolved[TopFrame.handler, CurrentItem.path,
                                  CurrentItem.target]
       IN  walk' =
               IF outcome # "ok" THEN withTop(walk, advance(TopFrame, <<>>))
               ELSE [withTop(walk, [TopFrame EXCEPT !.phase = "dir",
                                                    !.resolvedTo = resolvedTo])
                        EXCEPT !.resolutions = @ \cup
                            {[handler |-> TopFrame.handler,
                              itemPath |-> CurrentItem.path,
                              targetPath |-> targetPath,
                              resolvedTo |-> resolvedTo]}]
    /\ UNCHANGED <<resolverVars, conflictCall, storeVars, tagsCall, retry,
                   fetcher, parseCall, mergeCall, sync, cli>>

\* the resolved path is fetched as a directory
walkLinkDir(outcome) ==
    /\ walk.pc = "walking"
    /\ TopFrame.phase = "dir"
    /\ LET asked == [TopFrame EXCEPT !.asked = Append(@, "directory")]
       IN  walk' = enter(walk, asked, TopFrame.resolvedTo, ItemKey(TopFrame),
                         outcome, [asked EXCEPT !.phase = "file"])
    /\ UNCHANGED <<resolverVars, conflictCall, storeVars, tagsCall, retry,
                   fetcher, parseCall, mergeCall, sync, cli>>

\* what the handling of a symlink asked for, and what the directory gave
Tried(frame, subFiles) ==
    [handler |-> frame.handler, resolvedTo |-> frame.resolvedTo,
     asked |-> frame.asked, subFiles |-> Len(subFiles)]

\* the resolved path is fetched as a single file
walkLinkFile(outcome) ==
    /\ walk.pc = "walking"
    /\ TopFrame.phase = "file"
    /\ LET asked == [TopFrame EXCEPT !.asked = Append(@, "file")]
       IN  walk' = [withTop(walk, advance(asked,
                                IF outcome = "ok" THEN <<ItemKey(TopFrame)>>
                                ELSE <<>>))
                       EXCEPT !.tried = @ \cup {Tried(asked, <<>>)}]
    /\ UNCHANGED <<resolverVars, conflictCall, storeVars, tagsCall, retry,
                   fetcher, parseCall, mergeCall, sync, cli>>

\* a call of fetchDirectoryContents is through its entries and returns its
\* files to the call that waits for it: at an entry of type 'dir' they are
\* kept; at a symlink they are kept when there are any, and the path is
\* fetched as a single file when there are none
walkReturn ==
    /\ walk.pc = "walking"
    /\ Len(walk.stack) > 1
    /\ TopFrame.k > Len(TopFrame.items)
    /\ LET subFiles == TopFrame.files
           waiting  == walk.stack[Len(walk.stack) - 1]
           rest     == SubSeq(walk.stack, 1, Len(walk.stack) - 2)
       IN  walk' =
               IF waiting.phase = "dir"
               THEN IF Len(subFiles) > 0
                    THEN [walk EXCEPT
                             !.stack = Append(rest, advance(waiting, subFiles)),
                             !.tried = @ \cup {Tried(waiting, subFiles)}]
                    ELSE [walk EXCEPT
                             !.stack = Append(rest, [waiting EXCEPT
                                                        !.phase = "file"])]
               ELSE [walk EXCEPT
                        !.stack = Append(rest, advance(waiting, subFiles))]
    /\ UNCHANGED <<resolverVars, conflictCall, storeVars, tagsCall, retry,
                   fetcher, parseCall, mergeCall, sync, cli>>

\* every task of the skill's directory has ended: Promise.all resolves and
\* fetchGithubContent returns
walkDone ==
    /\ walk.pc = "walking"
    /\ Len(walk.stack) = 1
    /\ TopFrame.k > Len(TopFrame.items)
    /\ walk' = [walk EXCEPT !.pc = "returned", !.files = TopFrame.files]
    /\ UNCHANGED <<resolverVars, conflictCall, storeVars, tagsCall, retry,
                   fetcher, parseCall, mergeCall, sync, cli>>

InitWalk ==
    /\ ResolverIdle
    /\ StoreIdle
    /\ tagsCall = NoTagsCall
    /\ retry = NoRetry
    /\ fetcher = NoFetch
    /\ parseCall = NoParse
    /\ mergeCall = NoMerge
    /\ sync = NoSync
    /\ cli = NoCli
    /\ \E tree \in Trees : walk = [pc |-> "idle", tree |-> tree]

NextWalk ==
    \/ walkStart
    \/ \E outcome \in RequestOutcomes : walkFile(outcome)
    \/ \E outcome \in RequestOutcomes : walkDir(outcome)
    \/ \E outcome \in RequestOutcomes : walkLink(outcome)
    \/ \E outcome \in RequestOutcomes : walkLinkDir(outcome)
    \/ \E outcome \in RequestOutcomes : walkLinkFile(outcome)
    \/ walkReturn
    \/ walkDone

SpecWalk == InitWalk /\ [][NextWalk]_vars

\* every request is answered or fails, and every continuation is run
SpecWalkLive == SpecWalk /\ WF_vars(NextWalk)

(***************************************************************************)
(* Properties of the traversal.                                            *)
(***************************************************************************)
\* the directory that holds the entry at itemPath
DirectoryOf(itemPath) ==
    IF LastSlash(itemPath) = 0 THEN <<>>
    ELSE SubSeq(itemPath, 1, LastSlash(itemPath) - 1)

\* the walk of a '../' target: one segment is removed per '..', every other
\* segment that is neither empty nor '.' is appended
RECURSIVE UpwardWalk(_, _)
UpwardWalk(segments, target) ==
    IF target = <<>> THEN segments
    ELSE UpwardWalk(CASE Head(target) = <<"..">> ->
                             SubSeq(segments, 1, Len(segments) - 1)
                      [] Head(target) \in {<<>>, <<".">>} -> segments
                      [] OTHER -> Append(segments, Head(target)),
                    Tail(target))

\* the path a target string resolves to, by the four rules
RuleResolved(itemPath, target) ==
    LET dir == DirectoryOf(itemPath)
        startsWith(prefix) ==
            /\ Len(target) >= Len(prefix)
            /\ SubSeq(target, 1, Len(prefix)) = prefix
    IN  CASE startsWith(<<"/">>) -> Tail(target)
          [] startsWith(<<".", "/">>) -> dir \o <<"/">> \o Tail(Tail(target))
          [] startsWith(<<"..", "/">>) ->
                 JoinSlash(UpwardWalk(SplitSlash(dir), SplitSlash(target)))
          [] OTHER -> dir \o <<"/">> \o target

\* C33: a symlink's target string is resolved against the directory that
\* holds the link by the four rules ('/'-prefixed: the path after the slash;
\* './'-prefixed: directory + '/' + rest; '../'-prefixed: the directory's
\* segments, one removed per '..', every other non-empty, non-'.' segment
\* appended; otherwise directory + '/' + target); the resolved path is
\* fetched first as a directory and, only when that gave no files, as a
\* single file; the callback over the skill's directory and
\* fetchDirectoryContents resolve the same link to the same path.
C33_SymlinkResolution ==
    walk.pc # "idle" =>
        /\ \A r \in walk.resolutions :
              r.resolvedTo = RuleResolved(r.itemPath, r.targetPath)
        /\ \A r1, r2 \in walk.resolutions :
              (r1.itemPath = r2.itemPath /\ r1.targetPath = r2.targetPath) =>
                  r1.resolvedTo = r2.resolvedTo
        /\ \A t \in walk.tried :
              \/ t.asked = <<"directory">> /\ t.subFiles > 0
              \/ t.asked = <<"directory", "file">> /\ t.subFiles = 0
        /\ \A k \in 1..Len(walk.stack) :
              walk.stack[k].asked \in {<<>>, <<"directory">>}

\* the link ../docs in skills/docs was resolved to skills/docs by both
\* handlers; one handling of it got files from the directory, another got
\* none and went on to fetch the path as a file
C33_Witness ==
    /\ walk.pc # "idle"
    /\ walk.tree = [at |-> PathDocs, target |-> <<"..", "/", "docs">>]
    /\ \E r1, r2 \in walk.resolutions :
          /\ r1.handler = "top" /\ r2.handler = "directory"
          /\ r1.itemPath = r2.itemPath
          /\ r1.resolvedTo = PathDocs /\ r2.resolvedTo = PathDocs
    /\ \E t1, t2 \in walk.tried :
          /\ t1.asked = <<"directory">>
          /\ t2.asked = <<"directory", "file">>

====
